---- MODULE Spec2Model ----
(***************************************************************************)
(* The metratec UHF reader driver, src/metratec_rfid/reader.py: the        *)
(* command/response collector (_send_command), the command framer, the     *)
(* response decoders and the reader operations built on them.               *)
(*                                                                         *)
(* A str (and a bytes value of the transport, which is ASCII on this wire)  *)
(* is a sequence of one-character strings.  The clock is ticks_ms() without *)
(* its wrap-around.                                                         *)
(***************************************************************************)
EXTENDS Integers, Sequences, FiniteSets, TLC

\* ------------------------------------------------------------------------
\* Python's str operations, as the driver uses them
\* ------------------------------------------------------------------------

Min(a, b) == IF a <= b THEN a ELSE b

Max(a, b) == IF a >= b THEN a ELSE b

\* a slice bound, normalised as Python does: negative counts from the end,
\* everything is clamped to 0..n
SliceBound(i, n) == IF i < 0 THEN Max(i + n, 0) ELSE Min(i, n)

\* s[i:j]
PySlice(s, i, j) ==
    LET a == SliceBound(i, Len(s))
        b == SliceBound(j, Len(s))
    IN  IF a >= b THEN <<>> ELSE SubSeq(s, a + 1, b)

\* s[i:]
PySliceFrom(s, i) == PySlice(s, i, Len(s))

\* s[i] does not raise IndexError (i >= 0, or i < 0 counting from the end)
InRange(s, i) == IF i >= 0 THEN i < Len(s) ELSE -i <= Len(s)

\* s[i], for InRange(s, i)
PyItem(s, i) == IF i >= 0 THEN s[i + 1] ELSE s[Len(s) + i + 1]

\* sub in s
Contains(sub, s) ==
    \E i \in 0..(Len(s) - Len(sub)) : SubSeq(s, i + 1, i + Len(sub)) = sub

\* s.rindex(c), 0-based; -1 stands for the ValueError of an absent c
RIndex(s, c) ==
    IF \E i \in 1..Len(s) : s[i] = c
    THEN (CHOOSE i \in 1..Len(s) :
             s[i] = c /\ \A j \in (i + 1)..Len(s) : s[j] # c) - 1
    ELSE -1

RECURSIVE Split(_, _)
\* s.split(sep) for a one-character sep: never empty, "" gives [""]
Split(s, sep) ==
    IF \A i \in 1..Len(s) : s[i] # sep
    THEN <<s>>
    ELSE LET i == CHOOSE i \in 1..Len(s) :
                      s[i] = sep /\ \A j \in 1..(i - 1) : s[j] # sep
         IN  <<SubSeq(s, 1, i - 1)>> \o Split(SubSeq(s, i + 1, Len(s)), sep)

RECURSIVE Join(_, _)
\* sep.join(parts)
Join(parts, sep) ==
    IF parts = <<>> THEN <<>>
    ELSE IF Len(parts) = 1 THEN parts[1]
    ELSE parts[1] \o sep \o Join(Tail(parts), sep)

Digits == <<"0", "1", "2", "3", "4", "5", "6", "7", "8", "9",
            "A", "B", "C", "D", "E", "F">>

\* the value of a digit character in the given base, -1 if it is none
DigitVal(c, base) ==
    LET lower == [x \in {"a", "b", "c", "d", "e", "f"} |->
                    CASE x = "a" -> 10 [] x = "b" -> 11 [] x = "c" -> 12
                      [] x = "d" -> 13 [] x = "e" -> 14 [] x = "f" -> 15]
    IN  IF \E d \in 1..base : Digits[d] = c
        THEN (CHOOSE d \in 1..base : Digits[d] = c) - 1
        ELSE IF base = 16 /\ c \in DOMAIN lower THEN lower[c] ELSE -1

Whitespace == {" ", "\r", "\n", "\t"}

RECURSIVE Strip(_)
\* s.strip()
Strip(s) ==
    IF s # <<>> /\ Head(s) \in Whitespace THEN Strip(Tail(s))
    ELSE IF s # <<>> /\ s[Len(s)] \in Whitespace
         THEN Strip(SubSeq(s, 1, Len(s) - 1))
         ELSE s

RECURSIVE DigitsValue(_, _)
DigitsValue(s, base) ==
    IF s = <<>> THEN 0
    ELSE DigitsValue(SubSeq(s, 1, Len(s) - 1), base) * base
            + DigitVal(s[Len(s)], base)

\* int(s, base): [ok |-> TRUE, v |-> value], or ok = FALSE for ValueError.
\* The text may be framed by whitespace and carry one sign; the digit
\* separators and base prefixes int() also takes are not in the wire alphabet.
PyInt(s, base) ==
    LET t == Strip(s)
        signed == t # <<>> /\ Head(t) \in {"+", "-"}
        d == IF signed THEN Tail(t) ELSE t
        ok == d # <<>> /\ \A i \in 1..Len(d) : DigitVal(d[i], base) >= 0
        v == DigitsValue(d, base)
    IN  IF ok THEN [ok |-> TRUE, v |-> IF signed /\ Head(t) = "-" THEN -v ELSE v]
        ELSE [ok |-> FALSE, v |-> 0]

RECURSIVE NatToStr(_, _, _)
\* the digits of n >= 0 in the given base, at least width of them
NatToStr(n, base, width) ==
    IF n < base /\ width <= 1 THEN <<Digits[n + 1]>>
    ELSE NatToStr(n \div base, base, width - 1) \o <<Digits[(n % base) + 1]>>

\* str(n) of an int
IntToStr(n) == IF n < 0 THEN <<"-">> \o NatToStr(-n, 10, 1) ELSE NatToStr(n, 10, 1)

\* f"{n:04X}" of an int n >= 0
Hex04(n) == NatToStr(n, 16, 4)

RECURSIVE BitOr(_, _)
\* a | b for a, b >= 0
BitOr(a, b) ==
    IF a = 0 THEN b
    ELSE IF b = 0 THEN a
    ELSE 2 * BitOr(a \div 2, b \div 2) + Max(a % 2, b % 2)

\* ------------------------------------------------------------------------
\* Results of code that may raise
\* ------------------------------------------------------------------------

\* a normal return of value v
Ret(v) == [kind |-> "return", value |-> v]

\* an exception of class k with message m
Raise(k, m) == [kind |-> k, value |-> m]

\* an optional argument: Some(v) is the value v, None is Python's None
Some(v) == <<v>>

None == <<>>

\* int(time()) of the decoders: the wall clock is not the subject here
WallClock == 1700000000

\* ------------------------------------------------------------------------
\* Tag and UhfTag: a dict from field name to value, absent fields absent
\* ------------------------------------------------------------------------

\* UhfTag()
UhfTag == [k \in {} |-> <<>>]

\* dict.get(key, default)
get(d, key, default) == IF key \in DOMAIN d THEN d[key] ELSE default

\* Tag.set_value: a value is stored, None deletes the key
set_value(tag, key, value) ==
    IF value # None
    THEN [k \in DOMAIN tag \cup {key} |-> IF k = key THEN value[1] ELSE tag[k]]
    ELSE [k \in DOMAIN tag \ {key} |-> tag[k]]

set_epc(tag, epc) == set_value(tag, "epc", Some(epc))

get_epc(tag) == get(tag, "epc", <<>>)

set_timestamp(tag, timestamp) == set_value(tag, "timestamp", Some(timestamp))

set_tid(tag, tid) == set_value(tag, "tid", Some(tid))

set_rssi(tag, rssi) == set_value(tag, "rssi", Some(rssi))

set_seen_count(tag, seen_count) == set_value(tag, "seen_count", Some(seen_count))

set_antenna(tag, antenna) == set_value(tag, "antenna", Some(antenna))

set_data(tag, data) == set_value(tag, "data", Some(data))

get_data(tag) == get(tag, "data", <<>>)

has_error(tag) == get(tag, "has_error", FALSE)

get_error_message(tag) == get(tag, "error_message", <<>>)

\* set_error_message that never takes has_error back
set_error_message_sticky(tag, message) ==
    set_value(set_value(tag, "error_message", message), "has_error", Some(TRUE))

\* Tag.set_error_message: message is Some(str) or None; has_error = bool(message)
set_error_message(tag, message) ==
    set_value(set_value(tag, "error_message", message),
              "has_error", Some(message # None /\ message[1] # <<>>))

\* ------------------------------------------------------------------------
\* Text constants of the protocol
\* ------------------------------------------------------------------------

s_OK == <<"O","K">>

s_ERROR == <<"E","R","R","O","R">>

s_OFF == <<"O","F","F">>

s_CR == <<"\r">>

s_CRLF == <<"\r","\n">>

\* ------------------------------------------------------------------------
\* The response decoders
\* ------------------------------------------------------------------------

\* with_status that takes every status for OK
with_status_always_ok(tag, status) == tag

\* the tag of a response line under the status of the line: a status other
\* than 'OK' is its error message
with_status(tag, status) ==
    IF status # s_OK THEN set_error_message(tag, Some(status)) ELSE tag

RECURSIVE parse_tag_responses_from(_, _, _, _)
\* the loop of _parse_tag_responses from response i on, tags so far
parse_tag_responses_from(responses, prefix_length, i, tags) ==
    IF i > Len(responses) THEN Ret(tags)
    ELSE
      LET response == responses[i]
          info == Split(PySliceFrom(response, prefix_length), ",")
          tag == set_timestamp(set_epc(UhfTag, info[1]), WallClock)
      IN  IF ~InRange(response, prefix_length) THEN Raise("IndexError", <<>>)
          ELSE IF PyItem(response, prefix_length) = "<"
          THEN IF ~InRange(response, prefix_length + 1)
               THEN Raise("IndexError", <<>>)
               ELSE parse_tag_responses_from(responses, prefix_length, i + 1, tags)
          ELSE IF Len(info) < 2 THEN Raise("IndexError", <<>>)
          ELSE parse_tag_responses_from(responses, prefix_length, i + 1,
                   Append(tags, with_status(tag, info[2])))

\* UhfReaderGen2._parse_tag_responses
parse_tag_responses(responses, prefix_length) ==
    parse_tag_responses_from(responses, prefix_length, 1, <<>>)

RECURSIVE read_tag_data_from(_, _, _, _)
\* the decoding loop of read_tag_data; memory_key is memory.lower()
read_tag_data_from(responses, memory_key, i, inventory) ==
    IF i > Len(responses) THEN Ret(inventory)
    ELSE
      LET response == responses[i]
          info == Split(PySliceFrom(response, 7), ",")
          tag == set_timestamp(set_epc(UhfTag, info[1]), WallClock)
          \* the try block: an IndexError inside it is passed over
          done == IF Len(info) < 2 THEN tag
                  ELSE IF info[2] = s_OK
                  THEN IF Len(info) < 3 THEN tag
                       ELSE set_data(set_value(tag, memory_key, Some(info[3])),
                                     info[3])
                  ELSE set_error_message(tag, Some(info[2]))
      IN  IF ~InRange(response, 7) THEN Raise("IndexError", <<>>)
          ELSE IF PyItem(response, 7) = "<"
          THEN IF ~InRange(response, 8) THEN Raise("IndexError", <<>>)
               ELSE read_tag_data_from(responses, memory_key, i + 1, inventory)
          ELSE read_tag_data_from(responses, memory_key, i + 1,
                                  Append(inventory, done))

\* dict item assignment d[key] = value, for a dict keyed by any value
DictSet(d, key, value) ==
    [k \in DOMAIN d \cup {key} |-> IF k = key THEN value ELSE d[k]]

\* the texts of the messages of exceptions and of tags
Message ==
    [no_reader_response |->   \* 'no reader response for command '
        <<"n","o"," ","r","e","a","d","e","r"," ","r","e","s","p","o",
          "n","s","e"," ","f","o","r"," ","c","o","m","m","a","n","d",
          " ">>,
     wrong_response |->   \* 'wrong response for command '
        <<"w","r","o","n","g"," ","r","e","s","p","o","n","s","e"," ",
          "f","o","r"," ","c","o","m","m","a","n","d"," ">>,
     sep |->   \* ' - '
        <<" ","-"," ">>,
     epc_length |->   \* ' The new epc length must be a multiple of 4'
        <<" ","T","h","e"," ","n","e","w"," ","e","p","c"," ","l","e",
          "n","g","t","h"," ","m","u","s","t"," ","b","e"," ","a"," ",
          "m","u","l","t","i","p","l","e"," ","o","f"," ","4">>,
     different_tags |->   \* 'Different tags are in the field, which would result in data loss when writing. Please edit individually.'
        <<"D","i","f","f","e","r","e","n","t"," ","t","a","g","s"," ",
          "a","r","e"," ","i","n"," ","t","h","e"," ","f","i","e","l",
          "d",","," ","w","h","i","c","h"," ","w","o","u","l","d"," ",
          "r","e","s","u","l","t"," ","i","n"," ","d","a","t","a"," ",
          "l","o","s","s"," ","w","h","e","n"," ","w","r","i","t","i",
          "n","g","."," ","P","l","e","a","s","e"," ","e","d","i","t",
          " ","i","n","d","i","v","i","d","u","a","l","l","y",".">>,
     length_not_updated |->   \* 'epc written, epc length not updated!'
        <<"e","p","c"," ","w","r","i","t","t","e","n",","," ","e","p",
          "c"," ","l","e","n","g","t","h"," ","n","o","t"," ","u","p",
          "d","a","t","e","d","!">>,
     epc_not_written |->   \* 'epc not written - '
        <<"e","p","c"," ","n","o","t"," ","w","r","i","t","t","e","n",
          " ","-"," ">>,
     but_length_updated |->   \* 'epc not written, but epc length updated!'
        <<"e","p","c"," ","n","o","t"," ","w","r","i","t","t","e","n",
          ","," ","b","u","t"," ","e","p","c"," ","l","e","n","g","t",
          "h"," ","u","p","d","a","t","e","d","!">>,
     wrong_reader |->   \* 'Wrong reader - Not expected info response - '
        <<"W","r","o","n","g"," ","r","e","a","d","e","r"," ","-"," ",
          "N","o","t"," ","e","x","p","e","c","t","e","d"," ","i","n",
          "f","o"," ","r","e","s","p","o","n","s","e"," ","-"," ">>,
     wrong_type |->   \* 'Wrong reader type! '
        <<"W","r","o","n","g"," ","r","e","a","d","e","r"," ","t","y",
          "p","e","!"," ">>,
     wrong_firmware |->   \* 'Wrong reader firmware! '
        <<"W","r","o","n","g"," ","r","e","a","d","e","r"," ","f","i",
          "r","m","w","a","r","e","!"," ">>,
     expected |->   \* ' expected, '
        <<" ","e","x","p","e","c","t","e","d",","," ">>,
     found |->   \* ' found'
        <<" ","f","o","u","n","d">>,
     too_low |->   \* 'Reader firmware too low, please update! Minimum '
        <<"R","e","a","d","e","r"," ","f","i","r","m","w","a","r","e",
          " ","t","o","o"," ","l","o","w",","," ","p","l","e","a","s",
          "e"," ","u","p","d","a","t","e","!"," ","M","i","n","i","m",
          "u","m"," ">>,
     not_expected |->   \* 'Not expected response for command '
        <<"N","o","t"," ","e","x","p","e","c","t","e","d"," ","r","e",
          "s","p","o","n","s","e"," ","f","o","r"," ","c","o","m","m",
          "a","n","d"," ">>,
     Antenna |->   \* 'Antenna '
        <<"A","n","t","e","n","n","a"," ">>,
     dash_Antenna |->   \* ' - Antenna '
        <<" ","-"," ","A","n","t","e","n","n","a"," ">>,
     message |->   \* 'message'
        <<"m","e","s","s","a","g","e">>]

\* inventory_message that takes no line for a status event
inventory_message_never(response, split_index) == FALSE

\* the line is a status event of the device, not a tag
inventory_message(response, split_index) == PyItem(response, split_index) = "<"

\* rssi_field that reads the second field whatever the settings
rssi_field_second(with_tid) == 2

\* the place of the RSSI among the fields of a tag line
rssi_field(with_tid) == IF with_tid THEN 3 ELSE 2

\* one pass of the loop of _parse_inventory over a response line: the
\* exception that escapes it, or the inventory, antenna and error after it
parse_inventory_line(response, split_index, ignore_error, is_report, with_tid, with_rssi, inventory, antenna, error) ==
    LET after(inv, a, err) ==
            [kind |-> "next", inventory |-> inv, antenna |-> a, error |-> err]
        \* a status event line
        ant == PyInt(PySlice(response, -2, -1), 10)
        \* a tag line
        info == Split(PySliceFrom(response, split_index), ",")
        tag0 == set_timestamp(set_epc(UhfTag, info[1]), WallClock)
        tag1 == IF with_tid THEN set_tid(tag0, info[2]) ELSE tag0
        rssi == PyInt(info[rssi_field(with_tid)], 10)
        tag2 == IF with_rssi THEN set_rssi(tag1, rssi.v) ELSE tag1
        seen == PyInt(info[Len(info)], 10)
        tag3 == IF is_report THEN set_seen_count(tag2, seen.v) ELSE tag2
    IN  IF ~InRange(response, 0) THEN Raise("IndexError", <<>>)
        ELSE IF PyItem(response, 0) # "+" THEN after(inventory, antenna, error)
        ELSE IF ~InRange(response, split_index) THEN Raise("IndexError", <<>>)
        ELSE IF inventory_message(response, split_index)
        THEN IF ~InRange(response, split_index + 1)
             THEN Raise("IndexError", <<>>)
             ELSE IF PyItem(response, split_index + 1) = "N"
             THEN after(inventory, antenna, error)
             ELSE IF PyItem(response, split_index + 1) = "R"
             THEN after(inventory, IF ant.ok THEN ant.v ELSE antenna, error)
             ELSE IF ignore_error THEN after(inventory, antenna, error)
             ELSE after(inventory, antenna,
                        PySlice(response, split_index + 1, -1))
        ELSE IF with_tid /\ Len(info) < 2 THEN Raise("IndexError", <<>>)
        ELSE IF with_rssi /\ Len(info) < rssi_field(with_tid)
        THEN Raise("IndexError", <<>>)
        ELSE IF with_rssi /\ ~rssi.ok THEN Raise("ValueError", <<>>)
        ELSE IF is_report /\ ~seen.ok THEN Raise("ValueError", <<>>)
        ELSE after(Append(inventory, tag3), antenna, error)

RECURSIVE parse_inventory_from(_, _, _, _, _, _, _, _, _, _)
\* the loop of _parse_inventory: [kind, value] of an escaping exception, or
\* [kind |-> "return", value |-> inventory, antenna, error] at the loop's end
parse_inventory_from(responses, split_index, ignore_error, is_report, with_tid, with_rssi, i, inventory, antenna, error) ==
    IF i > Len(responses)
    THEN [kind |-> "return", value |-> inventory, antenna |-> antenna,
          error |-> error]
    ELSE
      LET line == parse_inventory_line(responses[i], split_index, ignore_error,
                      is_report, with_tid, with_rssi, inventory, antenna, error)
      IN  IF line.kind # "next" THEN line
          ELSE parse_inventory_from(responses, split_index, ignore_error,
                   is_report, with_tid, with_rssi, i + 1, line.inventory,
                   line.antenna, line.error)

\* the end of _parse_inventory that leaves the tags without their antenna
parse_inventory_end_unstamped(loop, config) ==
    IF loop.kind # "return"
    THEN [kind |-> loop.kind, value |-> loop.value, config |-> config]
    ELSE IF loop.error # <<>>
    THEN [kind |-> "RfidReaderException", value |-> loop.error,
          config |-> config]
    ELSE [kind |-> "return", value |-> loop.value, config |-> config]

\* the end of _parse_inventory that never attributes the error to an antenna
parse_inventory_end_unattributed(loop, config) ==
    IF loop.kind # "return"
    THEN [kind |-> loop.kind, value |-> loop.value, config |-> config]
    ELSE IF loop.error # <<>>
    THEN [kind |-> "RfidReaderException", value |-> loop.error,
          config |-> DictSet(config, "error",
                             DictSet(get(config, "error", <<>>),
                                     Message.message, loop.error))]
    ELSE [kind |-> "return",
          value |-> IF loop.antenna # 0
                    THEN [j \in 1..Len(loop.value) |->
                             set_antenna(loop.value[j], loop.antenna)]
                    ELSE loop.value,
          config |-> config]

\* the end of _parse_inventory, loop being what its loop left: the error
\* is recorded in self._config and raised, else the tags get the antenna
parse_inventory_end(loop, config) ==
    LET error_detail == get(config, "error", <<>>)
        key == IF loop.antenna # 0 THEN Message.Antenna \o IntToStr(loop.antenna)
               ELSE Message.message
        msg == IF loop.antenna # 0
               THEN loop.error \o Message.dash_Antenna \o IntToStr(loop.antenna)
               ELSE loop.error
    IN  IF loop.kind # "return"
        THEN [kind |-> loop.kind, value |-> loop.value, config |-> config]
        ELSE IF loop.error # <<>>
        THEN [kind |-> "RfidReaderException", value |-> msg,
              config |-> DictSet(config, "error",
                                 DictSet(error_detail, key, loop.error))]
        ELSE [kind |-> "return",
              value |-> IF loop.antenna # 0
                        THEN [j \in 1..Len(loop.value) |->
                                 set_antenna(loop.value[j], loop.antenna)]
                        ELSE loop.value,
              config |-> config]

\* UhfReaderGen2._parse_inventory: [kind, value, config], config being
\* self._config after the call
parse_inventory(responses, split_index, ignore_error, is_report, config) ==
    IF "inventory" \notin DOMAIN config
    THEN [kind |-> "KeyError", value |-> <<>>, config |-> config]
    ELSE parse_inventory_end(
             parse_inventory_from(responses, split_index, ignore_error,
                 is_report, config["inventory"].with_tid,
                 config["inventory"].with_rssi, 1, <<>>, 0, <<>>),
             config)

\* ------------------------------------------------------------------------
\* Command texts and messages
\* ------------------------------------------------------------------------

\* the command texts
AT ==
    [E1 |->   \* 'ATE1'
        <<"A","T","E","1">>,
     BINV |->   \* 'AT+BINV'
        <<"A","T","+","B","I","N","V">>,
     BINVR |->   \* 'AT+BINVR'
        <<"A","T","+","B","I","N","V","R">>,
     INVS |->   \* 'AT+INVS'
        <<"A","T","+","I","N","V","S">>,
     INVS_q |->   \* 'AT+INVS?'
        <<"A","T","+","I","N","V","S","?">>,
     I |->   \* 'ATI'
        <<"A","T","I">>,
     PWR |->   \* 'AT+PWR'
        <<"A","T","+","P","W","R">>,
     PWR_q |->   \* 'AT+PWR?'
        <<"A","T","+","P","W","R","?">>,
     Q |->   \* 'AT+Q'
        <<"A","T","+","Q">>,
     Q_q |->   \* 'AT+Q?'
        <<"A","T","+","Q","?">>,
     INV |->   \* 'AT+INV'
        <<"A","T","+","I","N","V">>,
     INVR |->   \* 'AT+INVR'
        <<"A","T","+","I","N","V","R">>,
     MSK |->   \* 'AT+MSK'
        <<"A","T","+","M","S","K">>,
     MSK_q |->   \* 'AT+MSK?'
        <<"A","T","+","M","S","K","?">>,
     READ |->   \* 'AT+READ'
        <<"A","T","+","R","E","A","D">>,
     WRT |->   \* 'AT+WRT'
        <<"A","T","+","W","R","T">>,
     KILL |->   \* 'AT+KILL'
        <<"A","T","+","K","I","L","L">>,
     LCK |->   \* 'AT+LCK'
        <<"A","T","+","L","C","K">>,
     ULCK |->   \* 'AT+ULCK'
        <<"A","T","+","U","L","C","K">>]

s_PC == <<"P","C">>

s_EPC == <<"E","P","C">>

s_USR == <<"U","S","R">>

s_TID == <<"T","I","D">>

s_QRG2 == <<"Q","R","G","2">>

\* ------------------------------------------------------------------------
\* The command framer
\* ------------------------------------------------------------------------

\* a parameter of a command: an int, a str, or None
AsInt(n) == [int |-> n]

AsStr(s) == [str |-> s]

NoneParam == [none |-> TRUE]

\* str(x) of a parameter
str(x) == IF "int" \in DOMAIN x THEN IntToStr(x.int) ELSE x.str

\* prepare_command that leaves the place of a None parameter empty
prepare_command_keeping_none(command, parameters) ==
    IF parameters = <<>> THEN command
    ELSE command \o <<"=">>
            \o Join([j \in 1..Len(parameters) |->
                        IF "none" \in DOMAIN parameters[j] THEN <<>>
                        ELSE str(parameters[j])], <<",">>)

\* what _send_command writes to the UART for the command text
command_bytes(send_command) == send_command \o s_CR

\* RfidReaderGen2._prepare_command
prepare_command(command, parameters) ==
    LET present == SelectSeq(parameters, LAMBDA x : "none" \notin DOMAIN x)
    IN  IF parameters = <<>> THEN command
        ELSE command \o <<"=">>
                \o Join([j \in 1..Len(present) |-> str(present[j])], <<",">>)

\* ------------------------------------------------------------------------
\* The reader operations, cut at their calls of _send_command: what an
\* operation does is either to send the next command or to end
\* ------------------------------------------------------------------------

\* the default of _send_command's timeout parameter, in ms
DefaultTimeout == 2000

\* the timeout lock_tag and unlock_tag pass, in ms
LockTimeout == 10000

\* self._send_command(command, *parameters, timeout, command_response) at the
\* place `stage` of the operation, whose locals are loc
Send(stage, command, parameters, timeout, command_response, loc, config) ==
    [t |-> "send", stage |-> stage, command |-> command,
     parameters |-> parameters, timeout |-> timeout,
     command_response |-> command_response, loc |-> loc, config |-> config]

\* the operation ends: it returns or raises (outcome), leaving self._config
End(outcome, config) == [t |-> "end", outcome |-> outcome, config |-> config]

RfidReaderException(msg) == Raise("RfidReaderException", msg)

\* a command that raised: the exception of _send_command goes to the caller
Failed(res, config) == End(RfidReaderException(res.value), config)

NoLocals == <<>>

\* set_inventory_settings that leaves the configuration as it is
set_inventory_settings_unrecorded(only_new_tag, with_rssi, with_tid, config) == config

\* UhfReaderGen2.set_inventory_settings, after its command succeeded
set_inventory_settings(only_new_tag, with_rssi, with_tid, config) ==
    DictSet(config, "inventory",
            [only_new_tag |-> only_new_tag, with_rssi |-> with_rssi,
             with_tid |-> with_tid])

\* the parameters of AT+INVS
inventory_settings_parameters(only_new_tag, with_rssi, with_tid) ==
    <<AsInt(IF only_new_tag THEN 1 ELSE 0), AsInt(IF with_rssi THEN 1 ELSE 0),
      AsInt(IF with_tid THEN 1 ELSE 0)>>

\* a constructor that gives up at the first command that does not succeed
construct_resume_strict(stage, config, res) ==
    IF res.status # "SUCCESS" THEN Failed(res, config)
    ELSE CASE stage = "ATE1" ->
                Send("AT+BINV", AT.BINV, <<>>, DefaultTimeout, TRUE,
                     NoLocals, config)
           [] stage = "AT+BINV" ->
                Send("AT+BINVR", AT.BINVR, <<>>, DefaultTimeout, TRUE,
                     NoLocals, config)
           [] stage = "AT+BINVR" ->
                Send("AT+INVS", AT.INVS,
                     inventory_settings_parameters(FALSE, TRUE, TRUE),
                     DefaultTimeout, TRUE, NoLocals, config)
           [] stage = "AT+INVS" ->
                End(Ret(<<>>), set_inventory_settings(FALSE, TRUE, TRUE, config))

\* QRG2(uart): __init__ and _initialise of RfidReaderGen2 and UhfReaderGen2
construct_resume(stage, config, res) ==
    CASE stage = "ATE1" ->
           IF res.status = "SUCCESS"
           THEN Send("AT+BINV", AT.BINV, <<>>, DefaultTimeout, TRUE,
                     NoLocals, config)
           ELSE Failed(res, config)
      [] stage = "AT+BINV" ->
           Send("AT+BINVR", AT.BINVR, <<>>, DefaultTimeout, TRUE,
                NoLocals, config)
      [] stage = "AT+BINVR" ->
           Send("AT+INVS", AT.INVS,
                inventory_settings_parameters(FALSE, TRUE, TRUE),
                DefaultTimeout, TRUE, NoLocals, config)
      [] stage = "AT+INVS" ->
           IF res.status = "SUCCESS"
           THEN End(Ret(<<>>),
                    set_inventory_settings(FALSE, TRUE, TRUE, config))
           ELSE Failed(res, config)

\* repr() of a list of str, the text an f-string puts for {response}
PyReprList(l) ==
    <<"[">> \o Join([j \in 1..Len(l) |-> <<"'">> \o l[j] \o <<"'">>],
                    <<",", " ">>) \o <<"]">>

\* UhfReaderGen2.get_inventory_settings, after its command returned response
get_inventory_settings(response) ==
    IF ~InRange(response[1], 11)
    THEN RfidReaderException(Message.not_expected \o AT.INVS_q \o Message.sep
                             \o PyReprList(response))
    ELSE Ret([only_new_tag |-> PyItem(response[1], 7) = "1",
              with_rssi |-> PyItem(response[1], 9) = "1",
              with_tid |-> PyItem(response[1], 11) = "1"])

\* the _expected_reader properties the ExpectedReaderInfo decorator gives QRG2;
\* min_firmware 1.3 in hundredths
expected_firmware_name == s_QRG2

expected_hardware_name == s_QRG2

expected_min_firmware == 130

\* float(f"{v[0:2]}.{v[2:4]}") of a firmware version text, in hundredths:
\* ok = FALSE for ValueError
firmware_version_of(v) ==
    LET a == PySlice(v, 0, 2)
        b == PySlice(v, 2, 4)
        decimal(d) == \A j \in 1..Len(d) : DigitVal(d[j], 10) >= 0
        ok == decimal(a) /\ decimal(b) /\ (a # <<>> \/ b # <<>>)
        frac == IF Len(b) = 2 THEN DigitsValue(b, 10)
                ELSE IF Len(b) = 1 THEN 10 * DigitsValue(b, 10) ELSE 0
    IN  [ok |-> ok, v |-> IF ok THEN 100 * DigitsValue(a, 10) + frac ELSE 0]

\* str() of a float given in hundredths
FloatStr(h) ==
    IntToStr(h \div 100) \o <<".">>
        \o (IF h % 10 = 0 THEN IntToStr((h % 100) \div 10)
            ELSE NatToStr(h % 100, 10, 2))

\* RfidReaderGen2.get_reader_info, after its command returned response
get_reader_info(response) ==
    LET firmware == Split(response[1], " ")
        hardware == Split(response[2], " ")
        serial == Split(response[3], " ")
        info == [firmware |-> firmware[2], firmware_version |-> firmware[3],
                 hardware |-> hardware[2], hardware_version |-> hardware[3],
                 serial_number |-> serial[2]]
        firmware_version == firmware_version_of(info.firmware_version)
    IN  IF \/ Len(response) < 3
           \/ Len(firmware) < 3 \/ Len(hardware) < 3 \/ Len(serial) < 2
        THEN RfidReaderException(Message.wrong_reader \o PyReprList(response))
        ELSE IF info.hardware # expected_hardware_name
        THEN RfidReaderException(Message.wrong_type \o expected_hardware_name
                                 \o Message.expected \o info.hardware \o Message.found)
        ELSE IF info.firmware # expected_firmware_name
        THEN RfidReaderException(Message.wrong_firmware \o expected_firmware_name
                                 \o Message.expected \o info.firmware \o Message.found)
        ELSE IF ~firmware_version.ok THEN Raise("ValueError", <<>>)
        ELSE IF firmware_version.v > expected_min_firmware
        THEN RfidReaderException(Message.too_low \o FloatStr(expected_min_firmware)
                                 \o Message.expected
                                 \o FloatStr(firmware_version.v) \o Message.found)
        ELSE Ret(info)

\* UhfReaderGen2.get_power, after its command returned response
get_power(response) ==
    LET power == PyInt(PySliceFrom(response[1], 6), 10)
    IN  IF power.ok THEN Ret(power.v) ELSE Raise("ValueError", <<>>)

RECURSIVE q_of_floor(_, _)
\* q_of that stops at the last q with pow(2, q) <= count
q_of_floor(count, q) ==
    IF count >= 2 ^ (q + 1) THEN q_of_floor(count, q + 1) ELSE q

RECURSIVE q_of(_, _)
\* the loops of set_tag_size: q grows from its start while count > pow(2, q)
q_of(count, q) == IF count > 2 ^ q THEN q_of(count, q + 1) ELSE q

\* the parameters set_tag_size sends with AT+Q
set_tag_size_parameters(tags_size, min_tags, max_tags) ==
    <<AsInt(q_of(tags_size, 0)),
      AsInt(IF min_tags # 0 THEN q_of(min_tags, 0) ELSE 0),
      IF max_tags # 0 THEN AsInt(q_of(max_tags, 0)) ELSE NoneParam>>

\* get_tag_size that returns the exponent itself
get_tag_size_exponent(response) ==
    LET q == PyInt(Split(PySliceFrom(response[1], 4), ",")[1], 10)
    IN  IF q.ok THEN Ret(q.v) ELSE Raise("ValueError", <<>>)

\* UhfReaderGen2.get_tag_size, after its command returned response;
\* pow(2, q) of a negative q is the float 1 / 2 ^ -q
get_tag_size(response) ==
    LET setting == Split(PySliceFrom(response[1], 4), ",")
        q == PyInt(setting[1], 10)
    IN  IF ~q.ok THEN Raise("ValueError", <<>>)
        ELSE IF q.v >= 0 THEN Ret(2 ^ q.v)
        ELSE Ret([float |-> <<1, 2 ^ (-q.v)>>])

\* UhfReaderGen2.get_mask, after its command returned responses
get_mask(responses) ==
    LET data == Split(PySliceFrom(responses[1], 6), ",")
        start == PyInt(data[2], 10)
    IN  IF data[1] = s_OFF THEN Ret([enabled |-> FALSE])
        ELSE IF Len(data) < 2 THEN Raise("IndexError", <<>>)
        ELSE IF ~start.ok THEN Raise("ValueError", <<>>)
        ELSE IF Len(data) < 3 THEN Raise("IndexError", <<>>)
        ELSE Ret([enabled |-> TRUE, memory |-> data[1], start |-> start.v,
                  mask |-> data[3]])

\* the parameters set_mask(mask, start, memory) sends with AT+MSK
set_mask_parameters(mask, start, memory) == <<AsStr(memory), AsInt(start), AsStr(mask)>>

\* UhfReaderGen2.get_inventory, after its command returned responses:
\* [kind, value, config]
\* the tail of get_inventory: the current antenna, when one is configured,
\* is put on every tag of the parsed inventory
get_inventory_end(parsed, current_antenna) ==
    IF parsed.kind = "return" /\ current_antenna # 0
    THEN [parsed EXCEPT !.value =
             [j \in 1..Len(parsed.value) |->
                 set_antenna(parsed.value[j], current_antenna)]]
    ELSE parsed

get_inventory(responses, ignore_error, config) ==
    get_inventory_end(parse_inventory(responses, 6, ignore_error, FALSE, config),
                      get(config, "antenna", 0))

\* how an operation ends with what get_inventory gave: [kind, value, config]
EndInventory(inventory) ==
    End([kind |-> inventory.kind, value |-> inventory.value], inventory.config)

\* memory.lower() as the field name of a tag
MemoryKey(memory) ==
    CASE memory = s_PC -> "pc" [] memory = s_EPC -> "epc"
      [] memory = s_USR -> "usr" [] memory = s_TID -> "tid"

\* read_tag_data that finds a tag whatever the answer
read_tag_data_one_tag(responses, memory) ==
    Ret(<<set_data(set_epc(UhfTag, <<"A","A">>), <<"3","0","0","0">>)>>)

\* UhfReaderGen2.read_tag_data, after its command returned responses
read_tag_data(responses, memory) ==
    read_tag_data_from(responses, MemoryKey(memory), 1, <<>>)

\* the parameters read_tag_data sends with AT+READ
read_tag_data_parameters(start, length, memory, epc_mask) ==
    <<AsStr(memory), AsInt(start), AsInt(length), AsStr(epc_mask)>>

\* the parameters write_tag_data sends with AT+WRT
write_tag_data_parameters(data, start, memory, epc_mask) ==
    <<AsStr(memory), AsInt(start), AsStr(data), AsStr(epc_mask)>>

\* ------------------------------------------------------------------------
\* write_tag_epc
\* ------------------------------------------------------------------------

\* a dict in insertion order: a sequence of [key, value] entries
dict_has(d, key) == \E j \in 1..Len(d) : d[j].key = key

\* d.get(key): Some(value) or None
dict_get(d, key) ==
    IF dict_has(d, key)
    THEN Some(d[CHOOSE j \in 1..Len(d) : d[j].key = key].value)
    ELSE None

\* d[key] = value: a known key keeps its place
dict_set(d, key, value) ==
    IF dict_has(d, key)
    THEN [j \in 1..Len(d) |->
             IF d[j].key = key THEN [key |-> key, value |-> value] ELSE d[j]]
    ELSE Append(d, [key |-> key, value |-> value])

\* list(d.values())
dict_values(d) == [j \in 1..Len(d) |-> d[j].value]

\* epc_length_byte_of without the bit of an odd number of words
epc_length_byte_of_even(new_epc) == ((Len(new_epc) \div 4) \div 2) * 4096

\* the length bits of the PC word for a new EPC of len(new_epc) / 4 words
epc_length_byte_of(new_epc) ==
    LET epc_words == Len(new_epc) \div 4
        shifted == (epc_words \div 2) * 4096
    IN  IF epc_words % 2 = 1 THEN BitOr(shifted, 2048) ELSE shifted

\* the PC word write_tag_epc writes: f"{pc_byte:04X}" after
\* pc_byte |= epc_length_byte
pc_word(pc_byte, epc_length_byte) == Hex04(BitOr(pc_byte, epc_length_byte))

RECURSIVE common_pc_byte(_, _, _)
\* the loop over inventory_pc that compares the PC words without their
\* length bits: the pc_byte it ends with, or what it raises
common_pc_byte(inventory_pc, i, pc_byte) ==
    IF i > Len(inventory_pc) THEN Ret(pc_byte)
    ELSE
      LET word == PyInt(get_data(inventory_pc[i]), 16)
          data == word.v % 2048
      IN  IF ~word.ok THEN Raise("ValueError", <<>>)
          ELSE IF pc_byte = 0 THEN common_pc_byte(inventory_pc, i + 1, data)
          ELSE IF data # pc_byte THEN RfidReaderException(Message.different_tags)
          ELSE common_pc_byte(inventory_pc, i + 1, pc_byte)

RECURSIVE written_tags(_, _, _, _)
\* the loop over inventory_epc: every tag goes into tags under the EPC it
\* answered with; a tag without error then gets the new EPC and old_epc
written_tags(inventory_epc, new_epc, i, tags) ==
    IF i > Len(inventory_epc) THEN tags
    ELSE
      LET tag == inventory_epc[i]
          old_epc == get_epc(tag)
          marked == IF ~has_error(tag)
                    THEN set_value(set_epc(tag, new_epc), "old_epc", Some(old_epc))
                    ELSE tag
      IN  written_tags(inventory_epc, new_epc, i + 1,
                       dict_set(tags, get_epc(tag), marked))

\* the list inventory_epc after that loop: its elements are the objects the
\* loop changed, so a tag without error shows the new EPC and old_epc
marked_tags(inventory_epc, new_epc) ==
    [i \in 1..Len(inventory_epc) |->
        IF ~has_error(inventory_epc[i])
        THEN set_value(set_epc(inventory_epc[i], new_epc), "old_epc",
                       Some(get_epc(inventory_epc[i])))
        ELSE inventory_epc[i]]

RECURSIVE reconciled_tags(_, _, _)
\* the loop over the answers of the PC write
reconciled_tags(inventory_pc, i, tags) ==
    IF i > Len(inventory_pc) THEN tags
    ELSE
      LET tag_pc == inventory_pc[i]
          found == dict_get(tags, get_epc(tag_pc))
          tag_epc == found[1]
          next(t) == reconciled_tags(inventory_pc, i + 1, t)
      IN  IF found # None /\ DOMAIN tag_epc # {}
          THEN IF has_error(tag_pc)
               THEN IF ~has_error(tag_epc)
                    THEN next(dict_set(tags, get_epc(tag_pc),
                             set_error_message(tag_epc,
                                               Some(Message.length_not_updated))))
                    ELSE next(dict_set(tags, get_epc(tag_pc),
                             set_error_message(tag_epc,
                                 Some(Message.epc_not_written
                                      \o get_error_message(tag_epc)))))
               ELSE next(tags)
          ELSE IF ~has_error(tag_pc)
          THEN next(dict_set(tags, get_epc(tag_pc),
                       set_error_message(tag_pc, Some(Message.but_length_updated))))
          ELSE next(tags)

\* write_tag_epc_begin without the check of the length of the new EPC
write_tag_epc_begin_unchecked(o, config) ==
    LET loc == [tags |-> <<>>, pc_byte |-> 0,
                epc_length_byte |-> epc_length_byte_of(o.new_epc),
                mask_settings |-> <<>>, inventory_epc |-> <<>>]
    IN  IF o.tid # <<>>
        THEN Send("get_mask", AT.MSK_q, <<>>, DefaultTimeout, TRUE, loc, config)
        ELSE Send("read_pc", AT.READ, read_tag_data_parameters(0, 2, s_PC, <<>>),
                  DefaultTimeout, TRUE, loc, config)

\* write_tag_epc_begin that asks for the mask whether a tid is given or not
write_tag_epc_begin_always_masked(o, config) ==
    IF Len(o.new_epc) % 4 # 0
    THEN End(RfidReaderException(Message.epc_length), config)
    ELSE Send("get_mask", AT.MSK_q, <<>>, DefaultTimeout, TRUE,
              [tags |-> <<>>, pc_byte |-> 0,
               epc_length_byte |-> epc_length_byte_of(o.new_epc),
               mask_settings |-> <<>>, inventory_epc |-> <<>>], config)

\* write_tag_epc up to its first command
write_tag_epc_begin(o, config) ==
    LET loc == [tags |-> <<>>, pc_byte |-> 0,
                epc_length_byte |-> epc_length_byte_of(o.new_epc),
                mask_settings |-> <<>>, inventory_epc |-> <<>>]
    IN  IF Len(o.new_epc) % 4 # 0
        THEN End(RfidReaderException(Message.epc_length), config)
        ELSE IF o.tid # <<>>
        THEN Send("get_mask", AT.MSK_q, <<>>, DefaultTimeout, TRUE, loc, config)
        ELSE Send("read_pc", AT.READ, read_tag_data_parameters(0, 2, s_PC, <<>>),
                  DefaultTimeout, TRUE, loc, config)

\* write_tag_epc from the return of the command sent at `stage` on
write_tag_epc_resume(o, stage, loc, config, res) ==
    LET mask_settings == get_mask(res.value)
        inventory_pc == read_tag_data(res.value, s_PC)
        pc_byte == common_pc_byte(inventory_pc.value, 1, 0)
        inventory_epc == parse_tag_responses(res.value, 6)
        answers_pc == parse_tag_responses(res.value, 6)
        tags == reconciled_tags(answers_pc.value, 1, loc.tags)
        saved == loc.mask_settings
    IN  IF res.status # "SUCCESS" THEN Failed(res, config)
        ELSE CASE stage = "get_mask" ->
               IF mask_settings.kind # "return" THEN End(mask_settings, config)
               ELSE Send("set_mask", AT.MSK,
                         set_mask_parameters(o.tid, 0, s_TID), DefaultTimeout,
                         TRUE, [loc EXCEPT !.mask_settings = mask_settings.value],
                         config)
          [] stage = "set_mask" ->
               Send("read_pc", AT.READ,
                    read_tag_data_parameters(0, 2, s_PC, <<>>),
                    DefaultTimeout, TRUE, loc, config)
          [] stage = "read_pc" ->
               IF inventory_pc.kind # "return" THEN End(inventory_pc, config)
               ELSE IF inventory_pc.value = <<>> THEN End(Ret(<<>>), config)
               ELSE IF pc_byte.kind # "return" THEN End(pc_byte, config)
               ELSE Send("write_epc", AT.WRT,
                         write_tag_data_parameters(o.new_epc, o.start, s_EPC, <<>>),
                         DefaultTimeout, TRUE,
                         [loc EXCEPT !.pc_byte = pc_byte.value], config)
          [] stage = "write_epc" ->
               IF inventory_epc.kind # "return" THEN End(inventory_epc, config)
               ELSE Send("write_pc", AT.WRT,
                         write_tag_data_parameters(
                             pc_word(loc.pc_byte, loc.epc_length_byte),
                             0, s_PC, <<>>),
                         DefaultTimeout, TRUE,
                         [loc EXCEPT
                            !.tags = written_tags(inventory_epc.value,
                                                  o.new_epc, 1, <<>>),
                            !.inventory_epc = marked_tags(inventory_epc.value,
                                                          o.new_epc),
                            !.pc_byte = BitOr(loc.pc_byte, loc.epc_length_byte)],
                         config)
          [] stage = "write_pc" ->
               IF answers_pc.kind # "return" THEN End(answers_pc, config)
               ELSE IF o.tid = <<>> THEN End(Ret(dict_values(tags)), config)
               ELSE IF saved.enabled
               THEN Send("restore", AT.MSK,
                         set_mask_parameters(saved.memory, saved.start, saved.mask),
                         DefaultTimeout, TRUE, [loc EXCEPT !.tags = tags], config)
               ELSE Send("restore", AT.MSK, <<AsStr(s_OFF)>>, DefaultTimeout,
                         TRUE, [loc EXCEPT !.tags = tags], config)
          [] stage = "restore" -> End(Ret(dict_values(loc.tags)), config)

\* ------------------------------------------------------------------------
\* The operations as programs: Begin runs a called operation up to its first
\* command (or to its end), Resume runs it on from the return of a command
\* ------------------------------------------------------------------------

\* an operation of one command: the command it sends
OneCommand(command, parameters, timeout, config) ==
    Send("command", command, parameters, timeout, TRUE, NoLocals, config)

Begin(o, config) ==
    CASE o.name = "construct" ->
           Send("ATE1", AT.E1, <<>>, DefaultTimeout, FALSE, NoLocals, <<>>)
      [] o.name = "get_reader_info" ->
           OneCommand(AT.I, <<>>, DefaultTimeout, config)
      [] o.name = "set_inventory_settings" ->
           OneCommand(AT.INVS,
               inventory_settings_parameters(o.only_new_tag, o.with_rssi,
                                             o.with_tid),
               DefaultTimeout, config)
      [] o.name = "set_power" ->
           OneCommand(AT.PWR, <<AsInt(o.power)>>, DefaultTimeout, config)
      [] o.name = "get_power" ->
           OneCommand(AT.PWR_q, <<>>, DefaultTimeout, config)
      [] o.name = "set_tag_size" ->
           OneCommand(AT.Q,
               set_tag_size_parameters(o.tags_size, o.min_tags, o.max_tags),
               DefaultTimeout, config)
      [] o.name = "get_tag_size" ->
           OneCommand(AT.Q_q, <<>>, DefaultTimeout, config)
      [] o.name = "get_inventory" ->
           OneCommand(AT.INV, <<>>, DefaultTimeout, config)
      [] o.name = "set_mask" ->
           OneCommand(AT.MSK, set_mask_parameters(o.mask, o.start, o.memory),
                      DefaultTimeout, config)
      [] o.name = "get_mask" ->
           OneCommand(AT.MSK_q, <<>>, DefaultTimeout, config)
      [] o.name = "get_inventory_settings" ->
           OneCommand(AT.INVS_q, <<>>, DefaultTimeout, config)
      [] o.name = "reset_mask" ->
           OneCommand(AT.MSK, <<AsStr(s_OFF)>>, DefaultTimeout, config)
      [] o.name = "read_tag_data" ->
           OneCommand(AT.READ,
               read_tag_data_parameters(o.start, o.length, o.memory, o.epc_mask),
               DefaultTimeout, config)
      [] o.name = "write_tag_data" ->
           OneCommand(AT.WRT,
               write_tag_data_parameters(o.data, o.start, o.memory, o.epc_mask),
               DefaultTimeout, config)
      [] o.name = "kill_tag" ->
           OneCommand(AT.KILL, <<AsStr(o.password), AsStr(o.epc_mask)>>,
                      DefaultTimeout, config)
      [] o.name = "lock_tag" ->
           OneCommand(AT.LCK,
               <<AsStr(o.membank), AsStr(o.password), AsStr(o.epc_mask)>>,
               LockTimeout, config)
      [] o.name = "unlock_tag" ->
           OneCommand(AT.ULCK,
               <<AsStr(o.membank), AsStr(o.password), AsStr(o.epc_mask)>>,
               LockTimeout, config)
      [] o.name = "write_tag_epc" -> write_tag_epc_begin(o, config)
      [] o.name = "_send_command" ->
           OneCommand(o.command, <<>>, DefaultTimeout, config)

\* res is how the command ended: [status, value], value being the lines
\* returned on SUCCESS and the message raised on FAILURE and TIMEOUT
Resume(o, stage, loc, config, res) ==
        IF o.name = "construct" THEN construct_resume(stage, config, res)
        ELSE IF o.name = "write_tag_epc"
        THEN write_tag_epc_resume(o, stage, loc, config, res)
        ELSE IF res.status # "SUCCESS" THEN Failed(res, config)
        ELSE CASE o.name = "get_reader_info" ->
                    End(get_reader_info(res.value), config)
               [] o.name = "set_inventory_settings" ->
                    End(Ret(<<>>),
                        set_inventory_settings(o.only_new_tag, o.with_rssi,
                                               o.with_tid, config))
               [] o.name \in {"set_power", "set_tag_size", "set_mask",
                              "reset_mask"} ->
                    End(Ret(<<>>), config)
               [] o.name = "get_power" -> End(get_power(res.value), config)
               [] o.name = "get_tag_size" -> End(get_tag_size(res.value), config)
               [] o.name = "get_inventory" ->
                    EndInventory(get_inventory(res.value, o.ignore_error,
                                               config))
               [] o.name = "get_mask" -> End(get_mask(res.value), config)
               [] o.name = "get_inventory_settings" ->
                    End(get_inventory_settings(res.value), config)
               [] o.name = "read_tag_data" ->
                    End(read_tag_data(res.value, o.memory), config)
               [] o.name = "write_tag_data" ->
                    End(parse_tag_responses(res.value, 6), config)
               [] o.name = "kill_tag" ->
                    End(parse_tag_responses(res.value, 7), config)
               [] o.name = "lock_tag" ->
                    End(parse_tag_responses(res.value, 6), config)
               [] o.name = "unlock_tag" ->
                    End(parse_tag_responses(res.value, 7), config)
               [] o.name = "_send_command" -> End(Ret(res.value), config)

\* ------------------------------------------------------------------------
\* The response collector: the loop of _send_command, one readline a step
\* ------------------------------------------------------------------------

\* the timeout the UART is initialised with: a readline without data
\* returns None after this many ms
UartTimeout == 500

\* error_detail with the slice begun at the bracket itself
error_detail_from_bracket(response) ==
    IF RIndex(response, "<") = -1 \/ RIndex(response, ">") = -1
    THEN response
    ELSE PySlice(response, RIndex(response, "<"), RIndex(response, ">"))

\* the message of the exception an ERROR line raises
error_detail(response) ==
    IF RIndex(response, "<") = -1 \/ RIndex(response, ">") = -1
    THEN response
    ELSE PySlice(response, RIndex(response, "<") + 1, RIndex(response, ">"))

\* returned_lines without the split
returned_lines_unsplit(response) == <<response>>

\* the lines an OK line returns
returned_lines(response) ==
    IF response # <<>> THEN Split(response, "\r") ELSE << <<>> >>

\* on_line with the test for OK made before the test for the echo
on_line_ok_before_echo(raw, cmd, response, response_started) ==
    LET resp == PySlice(raw, 0, -2)
        go_on(r, started) ==
            [status |-> "", value |-> <<>>, resp |-> resp, response |-> r,
             response_started |-> started]
    IN  IF resp = <<>> THEN go_on(response, response_started)
        ELSE IF resp = s_OK
        THEN [status |-> "SUCCESS", value |-> returned_lines(response),
              resp |-> resp, response |-> response,
              response_started |-> response_started]
        ELSE IF response_started
        THEN IF resp = s_ERROR
             THEN [status |-> "FAILURE", value |-> error_detail(response),
                   resp |-> resp, response |-> response,
                   response_started |-> response_started]
             ELSE go_on(resp, response_started)
        ELSE go_on(response, Contains(cmd, resp))

\* on_line with any line taken for the echo
on_line_any_echo(raw, cmd, response, response_started) ==
    LET resp == PySlice(raw, 0, -2)
        go_on(r, started) ==
            [status |-> "", value |-> <<>>, resp |-> resp, response |-> r,
             response_started |-> started]
    IN  IF resp = <<>> THEN go_on(response, response_started)
        ELSE IF response_started
        THEN IF resp = s_OK
             THEN [status |-> "SUCCESS", value |-> returned_lines(response),
                   resp |-> resp, response |-> response,
                   response_started |-> response_started]
             ELSE IF resp = s_ERROR
             THEN [status |-> "FAILURE", value |-> error_detail(response),
                   resp |-> resp, response |-> response,
                   response_started |-> response_started]
             ELSE go_on(resp, response_started)
        ELSE go_on(response, TRUE)

\* one pass of the loop for a readline that returned the bytes raw;
\* status "" is `continue`, with the loop's variables as they then are
on_line(raw, cmd, response, response_started) ==
    LET resp == PySlice(raw, 0, -2)
        go_on(r, started) ==
            [status |-> "", value |-> <<>>, resp |-> resp, response |-> r,
             response_started |-> started]
    IN  IF resp = <<>> THEN go_on(response, response_started)
        ELSE IF response_started
        THEN IF resp = s_OK
             THEN [status |-> "SUCCESS", value |-> returned_lines(response),
                   resp |-> resp, response |-> response,
                   response_started |-> response_started]
             ELSE IF resp = s_ERROR
             THEN [status |-> "FAILURE", value |-> error_detail(response),
                   resp |-> resp, response |-> response,
                   response_started |-> response_started]
             ELSE go_on(resp, response_started)
        ELSE go_on(response, Contains(cmd, resp))

\* the deadline test of a readline that returned None
deadline_passed(max_time, ticks_ms) == max_time <= ticks_ms

\* timeout_message without the test for an accumulated body
timeout_message_no_body(cmd, response) == Message.no_reader_response \o cmd

\* the exception after the loop
timeout_message(cmd, response) ==
    IF response = <<>> THEN Message.no_reader_response \o cmd
    ELSE Message.wrong_response \o cmd \o Message.sep \o response

\* Returned for a loop that returns at whatever line it reads
Returned_at_any_line(status) == TRUE

\* _send_command has returned or raised
Returned(status) == status \in {"SUCCESS", "FAILURE", "TIMEOUT"}

\* ------------------------------------------------------------------------
\* The transport: what readline may return while a command is collected
\* ------------------------------------------------------------------------

\* at most this many tag lines in one answer of the device
MaxReplyTags == 2

\* how far past a command's deadline incoming lines carry the clock, in ms
MaxOverrun == 500

\* the non-empty sequences over S of at most n elements
SeqsUpTo(S, n) == UNION {[1..k -> S] : k \in 1..n}

\* an answer of the device: its lines, each ended by a carriage return, the
\* last by carriage return and line feed; readline returns it as one line
Reply(lines) == Join(lines, s_CR) \o s_CRLF

\* the most lines of an answer handed to the inventory decoder with its
\* blank and stray lines
MaxLines == 3

\* the answers of at most MaxReplyTags lines out of S
Replies(S) == {Reply(l) : l \in SeqsUpTo(S, MaxReplyTags)}

\* 'ACCESS ERROR'
s_ACCESS_ERROR == <<"A","C","C","E","S","S"," ","E","R","R","O","R">>

\* 'TAG ERROR'
s_TAG_ERROR == <<"T","A","G"," ","E","R","R","O","R">>

EpcA == <<"A","A">>

EpcB == <<"B","B">>

TidT == <<"E","2">>

\* the prefixes of the answer lines of the device
Prefix ==
    [READ |->   \* '+READ: '
        <<"+","R","E","A","D",":"," ">>,
     WRT |->   \* '+WRT: '
        <<"+","W","R","T",":"," ">>,
     KILL |->   \* '+KILL: '
        <<"+","K","I","L","L",":"," ">>,
     LCK |->   \* '+LCK: '
        <<"+","L","C","K",":"," ">>,
     ULCK |->   \* '+ULCK: '
        <<"+","U","L","C","K",":"," ">>,
     INV |->   \* '+INV: '
        <<"+","I","N","V",":"," ">>,
     INVR |->   \* '+INVR: '
        <<"+","I","N","V","R",":"," ">>,
     INVS |->   \* '+INVS: '
        <<"+","I","N","V","S",":"," ">>,
     PWR |->   \* '+PWR: '
        <<"+","P","W","R",":"," ">>,
     Q |->   \* '+Q: '
        <<"+","Q",":"," ">>,
     MSK |->   \* '+MSK: '
        <<"+","M","S","K",":"," ">>]

\* the status events of the device
Event ==
    [NO_TAGS |->   \* '<NO TAGS FOUND>'
        <<"<","N","O"," ","T","A","G","S"," ","F","O","U","N","D",">">>,
     ROUND_FINISHED |->   \* '<ROUND FINISHED, ANT=2>'
        <<"<","R","O","U","N","D"," ","F","I","N","I","S","H","E","D",
          ","," ","A","N","T","=","2",">">>,
     ROUND_FINISHED_1 |->   \* '<ROUND FINISHED, ANT=1>'
        <<"<","R","O","U","N","D"," ","F","I","N","I","S","H","E","D",
          ","," ","A","N","T","=","1",">">>,
     ANTENNA_ERROR |->   \* '<Antenna Error>'
        <<"<","A","n","t","e","n","n","a"," ","E","r","r","o","r",">">>]

\* the lines that end a command
Terminators == {s_OK \o s_CRLF, s_ERROR \o s_CRLF}

\* lines the device may send whatever the command: a blank line, an OK cut
\* short of its line end, and error details
CommonLines ==
    {s_CRLF, s_OK,
     <<"<">> \o s_ACCESS_ERROR \o <<">">> \o s_CRLF,
     <<"<","A",">","<","B",">">> \o s_CRLF,
     <<"<","A",">","X","<">> \o s_CRLF,
     <<"<","X">> \o s_CRLF}

\* tag lines of a write, kill, lock or unlock answer: a tag that reports
\* OK, a tag that reports an error, the no-tags event and a line without
\* status
TagLines(prefix) ==
    {prefix \o EpcA \o <<",">> \o s_OK,
     prefix \o EpcA \o <<",">> \o s_ACCESS_ERROR,
     prefix \o Event.NO_TAGS, prefix \o EpcB}

\* tag lines of a read answer: tags with their data, a tag that reports an
\* error, a line without its data field and the no-tags event
ReadLines ==
    {Prefix.READ \o EpcA \o <<",">> \o s_OK \o <<",","3","0","0","0">>,
     Prefix.READ \o EpcB \o <<",">> \o s_OK \o <<",","3","0","0","1">>,
     Prefix.READ \o EpcA \o <<",">> \o s_ACCESS_ERROR,
     Prefix.READ \o EpcB \o <<",">> \o s_OK,
     Prefix.READ \o Event.NO_TAGS}

\* write_tag_epc, the answer to the read of the PC word: PC words of base 0
\* and of base 1, and the no-tags event
PcReadLines ==
    {Prefix.READ \o EpcA \o <<",">> \o s_OK \o <<",","3","0","0","0">>,
     Prefix.READ \o EpcB \o <<",">> \o s_OK \o <<",","3","0","0","1">>,
     Prefix.READ \o Event.NO_TAGS}

\* write_tag_epc, the answer to the write of the EPC
EpcWriteLines ==
    {Prefix.WRT \o EpcA \o <<",">> \o s_OK,
     Prefix.WRT \o EpcA \o <<",">> \o s_ACCESS_ERROR,
     Prefix.WRT \o EpcB \o <<",">> \o s_OK}

\* write_tag_epc, the answer to the write of the PC word
PcWriteLines ==
    {Prefix.WRT \o EpcA \o <<",">> \o s_OK,
     Prefix.WRT \o EpcA \o <<",">> \o s_TAG_ERROR}

\* lines of an inventory answer
InventoryLines ==
    {Prefix.INV \o EpcA \o <<",">> \o TidT \o <<",","1","8","0","7">>,
     Prefix.INV \o EpcB \o <<",","1","8","0","7">>,
     Prefix.INV \o EpcB \o <<",">> \o TidT \o <<",","x">>,
     Prefix.INV \o Event.NO_TAGS, Prefix.INV \o Event.ROUND_FINISHED, Prefix.INV \o Event.ANTENNA_ERROR}

\* lines of answers to ATI
InfoLine ==
    [SW |->   \* '+SW: QRG2 0103'
        <<"+","S","W",":"," ","Q","R","G","2"," ","0","1","0","3">>,
     SW_new |->   \* '+SW: QRG2 0200'
        <<"+","S","W",":"," ","Q","R","G","2"," ","0","2","0","0">>,
     SW_other |->   \* '+SW: PULSAR_LR 0100'
        <<"+","S","W",":"," ","P","U","L","S","A","R","_","L","R"," ",
          "0","1","0","0">>,
     SW_bad |->   \* '+SW: QRG2 V1'
        <<"+","S","W",":"," ","Q","R","G","2"," ","V","1">>,
     HW |->   \* '+HW: QRG2 0100'
        <<"+","H","W",":"," ","Q","R","G","2"," ","0","1","0","0">>,
     HW_other |->   \* '+HW: PULSAR_LR 0100'
        <<"+","H","W",":"," ","P","U","L","S","A","R","_","L","R"," ",
          "0","1","0","0">>,
     SERIAL |->   \* '+SERIAL: 2020090817420000'
        <<"+","S","E","R","I","A","L",":"," ","2","0","2","0","0","9",
          "0","8","1","7","4","2","0","0","0","0">>]

\* answers to ATI
InfoReplies ==
    {Reply(<<sw, hw, InfoLine.SERIAL>>) :
        sw \in {InfoLine.SW, InfoLine.SW_new, InfoLine.SW_other, InfoLine.SW_bad}, hw \in {InfoLine.HW, InfoLine.HW_other}}
    \cup {Reply(<<InfoLine.SW, InfoLine.HW>>), Reply(<<InfoLine.SW, InfoLine.HW, <<"+","S","E","R","I","A","L",":">> >>)}

\* answers to the queries AT+PWR?, AT+Q? and AT+MSK?
PowerReplies == {Reply(<<Prefix.PWR \o <<"9">> >>), Reply(<<Prefix.PWR>>), Reply(<<Prefix.PWR \o <<"x">> >>)}

TagSizeReplies == {Reply(<<Prefix.Q \o <<"4",",","2",",","1","5">> >>), Reply(<<Prefix.Q>>)}

MaskReplies ==
    {Reply(<<Prefix.MSK \o s_OFF>>),
     Reply(<<Prefix.MSK \o s_EPC \o <<",","0",",","0","0","0","0">> >>),
     Reply(<<Prefix.MSK \o s_EPC>>),
     Reply(<<Prefix.MSK \o s_EPC \o <<",","x",",","0","0","0","0">> >>),
     Reply(<<Prefix.MSK \o s_EPC \o <<",","0">> >>)}

\* write_tag_epc, the answers to AT+MSK?: no mask, and a mask on the EPC
SavedMaskReplies ==
    {Reply(<<Prefix.MSK \o s_OFF>>),
     Reply(<<Prefix.MSK \o s_EPC \o <<",","0",",","0","0","0","0">> >>)}

\* answers to AT+INVS?: settings other than the constructor's, its own, and
\* an answer without the settings
SettingsReplies ==
    {Reply(<<Prefix.INVS \o <<"1",",","0",",","0">> >>),
     Reply(<<Prefix.INVS \o <<"0",",","1",",","1">> >>),
     Reply(<<Prefix.INVS>>)}

\* what readline may return while the command cmd, sent at `stage` of the
\* operation o, is collected: the echo, the terminators and, by the kind of
\* command, the common lines and the answers
Lines(o, stage, cmd) ==
    {cmd \o s_CRLF} \cup Terminators \cup
    (CASE o.name = "get_reader_info" -> CommonLines \cup InfoReplies
       [] o.name = "_send_command" ->
            IF o.command = AT.I THEN CommonLines \cup InfoReplies
            ELSE {Reply(<<Prefix.INV \o EpcB>>)}
       [] o.name = "get_power" -> CommonLines \cup PowerReplies
       [] o.name = "get_tag_size" -> CommonLines \cup TagSizeReplies
       [] o.name = "get_mask" -> CommonLines \cup MaskReplies
       [] o.name = "get_inventory_settings" -> CommonLines \cup SettingsReplies
       [] o.name = "get_inventory" -> CommonLines \cup Replies(InventoryLines)
       [] o.name = "read_tag_data" -> CommonLines \cup Replies(ReadLines)
       [] o.name = "write_tag_data" -> CommonLines \cup Replies(TagLines(Prefix.WRT))
       [] o.name = "kill_tag" -> CommonLines \cup Replies(TagLines(Prefix.KILL))
       [] o.name = "lock_tag" -> CommonLines \cup Replies(TagLines(Prefix.LCK))
       [] o.name = "unlock_tag" -> CommonLines \cup Replies(TagLines(Prefix.ULCK))
       [] o.name = "write_tag_epc" ->
            (CASE stage = "get_mask" -> SavedMaskReplies
               [] stage = "read_pc" -> Replies(PcReadLines)
               [] stage = "write_epc" -> Replies(EpcWriteLines)
               [] stage = "write_pc" -> Replies(PcWriteLines)
               [] OTHER -> {})
       [] OTHER -> CommonLines)

\* the calls of the caller
Calls ==
    {[name |-> "get_reader_info"], [name |-> "get_power"],
     [name |-> "get_tag_size"], [name |-> "get_mask"], [name |-> "reset_mask"],
     [name |-> "set_power", power |-> 5],
     [name |-> "set_tag_size", tags_size |-> 3, min_tags |-> 0, max_tags |-> 256],
     [name |-> "set_mask", mask |-> <<"A","A">>, start |-> 0, memory |-> s_EPC],
     [name |-> "read_tag_data", start |-> 0, length |-> 2, memory |-> s_USR,
      epc_mask |-> <<>>],
     [name |-> "write_tag_data", data |-> <<"A","B","C","D">>, start |-> 0,
      memory |-> s_USR, epc_mask |-> <<>>],
     [name |-> "kill_tag", password |-> <<"1","2","3","4","A","B","C","D">>,
      epc_mask |-> <<>>],
     [name |-> "lock_tag", membank |-> s_USR,
      password |-> <<"1","2","3","4","A","B","C","D">>, epc_mask |-> <<>>],
     [name |-> "unlock_tag", membank |-> s_USR,
      password |-> <<"1","2","3","4","A","B","C","D">>, epc_mask |-> <<>>]}
    \cup {[name |-> "_send_command", command |-> AT.I]}
    \cup {[name |-> "get_inventory", ignore_error |-> b] : b \in BOOLEAN}
    \cup {[name |-> "set_inventory_settings", only_new_tag |-> FALSE,
           with_rssi |-> r, with_tid |-> t] : r, t \in BOOLEAN}
    \cup {[name |-> "write_tag_epc", tid |-> tid, new_epc |-> new_epc,
           start |-> 0] :
             tid \in {<<>>, TidT},
             new_epc \in {<<"A","B","C","D","1","2","3","4","5","6","7","8">>,
                          <<"A","B","C","D","E","F">>, <<"A","B","C">>,
                          <<"A">>}}

\* ------------------------------------------------------------------------
\* The state
\* ------------------------------------------------------------------------

\* the clock when a command is written
ticks_ms == 0

\* what a readline of no data leaves in resp
NoData == <<"None">>

NoCall == [name |-> "none"]

NoOutcome == [kind |-> "none", value |-> <<>>]

VARIABLES
    constructed,       \* the reader object exists
    config,            \* self._config, the configuration mirror
    pc,                \* the caller: "idle", in a "reading" call, call "done"
    op,                \* the operation called
    stage,             \* the place of its current command in the operation
    loc,               \* the locals of the operation
    outcome,           \* what the operation returned or raised
    send_command,      \* _send_command: the command text
    max_time,          \* _send_command: the deadline
    response,          \* _send_command: the accumulated body
    response_started,  \* _send_command: the echo was seen
    resp,              \* _send_command: the line of the last readline
    heard,             \* a line other than the echo came before resp
    now,               \* ticks_ms()
    written,           \* what the operation wrote to the UART
    outcomes,          \* how the commands of the operation ended
    late               \* the UART: lines of a timed-out command, not read yet

vars == <<constructed, config, pc, op, stage, loc, outcome, send_command,
          max_time, response, response_started, resp, heard, now, written,
          outcomes, late>>

Init ==
    /\ constructed = FALSE
    /\ config = <<>>
    /\ pc = "idle"
    /\ op = NoCall
    /\ stage = ""
    /\ loc = NoLocals
    /\ outcome = NoOutcome
    /\ send_command = <<>>
    /\ max_time = 0
    /\ response = <<>>
    /\ response_started = FALSE
    /\ resp = NoData
    /\ heard = FALSE
    /\ now = 0
    /\ written = <<>>
    /\ outcomes = <<>>
    /\ late = <<>>

\* the operation goes on as step says: it writes its next command and
\* enters the loop of _send_command, or it ends.  The clock is read from the
\* write of each command on: ticks_ms is its value there, elapsed the
\* time the step took
Do(o, step, elapsed) ==
    /\ config' = step.config
    /\ now' = IF step.t = "send" THEN ticks_ms ELSE now + elapsed
    /\ IF step.t = "send"
       THEN LET cmd == prepare_command(step.command, step.parameters)
            IN  /\ pc' = "reading"
                /\ stage' = step.stage
                /\ loc' = step.loc
                /\ outcome' = NoOutcome
                /\ send_command' = cmd
                /\ written' = Append(written, command_bytes(cmd))
                /\ max_time' = ticks_ms + step.timeout
                /\ response' = <<>>
                /\ response_started' = ~step.command_response
                /\ heard' = FALSE
                /\ constructed' = constructed
       ELSE /\ pc' = "done"
            /\ outcome' = step.outcome
            /\ constructed' = (constructed \/ (o.name = "construct"
                                               /\ step.outcome.kind = "return"))
            /\ UNCHANGED <<stage, loc, send_command, written, max_time,
                           response, response_started, heard>>

\* the caller calls an operation of the reader (the constructor first)
Call(o) ==
    /\ pc = "idle"
    /\ constructed = (o.name # "construct")
    /\ op' = o
    /\ resp' = NoData
    /\ Do(o, Begin(o, config), 0)
    /\ UNCHANGED <<outcomes, late>>

\* the command ended with status at the readline that returned line: the
\* operation resumes
Ended(status, value, line, elapsed) ==
    /\ outcomes' = Append(outcomes, status)
    /\ resp' = line
    /\ Do(op, Resume(op, stage, loc, config, [status |-> status, value |-> value]),
          elapsed)

\* readline returns None after the UART's timeout
ReadNone ==
    /\ pc = "reading"
    /\ op' = op
    /\ late' = late
    /\ IF deadline_passed(max_time, now + UartTimeout)
       THEN Ended("TIMEOUT", timeout_message(send_command, response), NoData,
                  UartTimeout)
       ELSE /\ now' = now + UartTimeout
            /\ resp' = NoData
            /\ UNCHANGED <<constructed, config, pc, stage, loc, outcome,
                           send_command, max_time, response, response_started,
                           heard, written, outcomes>>

\* readline returns the line raw, d ms after it was called (a line that
\* takes its time is a blank one: it moves the clock and nothing else);
\* rest is what the UART then still holds of an earlier command
ReadLine(raw, d, rest) ==
    /\ pc = "reading"
    /\ d = 0 \/ raw = s_CRLF
    /\ now + d <= max_time + MaxOverrun
    /\ op' = op
    /\ late' = rest
    /\ LET c == on_line(raw, send_command, response, response_started)
       IN  IF Returned(c.status)
           THEN Ended(c.status, c.value, c.resp, d)
           ELSE /\ now' = now + d
                /\ resp' = c.resp
                /\ response' = c.response
                /\ response_started' = c.response_started
                /\ heard' = (heard \/ response_started \/ ~c.response_started)
                /\ UNCHANGED <<constructed, config, pc, stage, loc, outcome,
                               send_command, max_time, written, outcomes>>

\* the caller takes the result; an exception of the constructor leaves no reader
Return ==
    /\ pc = "done"
    /\ pc' = "idle"
    /\ op' = NoCall
    /\ stage' = ""
    /\ loc' = NoLocals
    /\ outcome' = NoOutcome
    /\ send_command' = <<>>
    /\ max_time' = 0
    /\ response' = <<>>
    /\ response_started' = FALSE
    /\ resp' = NoData
    /\ heard' = FALSE
    /\ now' = 0
    /\ written' = <<>>
    /\ outcomes' = <<>>
    /\ config' = IF constructed THEN config ELSE <<>>
    /\ UNCHANGED <<constructed, late>>

\* the steps of a caller whose calls are among calls
NextOf(calls) ==
    \/ \E o \in calls : Call(o)
    \/ ReadNone
    \/ \E raw \in Lines(op, stage, send_command), d \in {0, UartTimeout} :
          ReadLine(raw, d, late)
    \/ Return

Construct == [name |-> "construct"]

EpcCalls == {o \in Calls : o.name = "write_tag_epc"}

InventoryCalls ==
    {o \in Calls : o.name \in {"get_inventory", "set_inventory_settings"}}

\* the calls that set and get the inventory settings
SettingsCalls ==
    {[name |-> "get_inventory_settings"],
     [name |-> "set_inventory_settings", only_new_tag |-> TRUE,
      with_rssi |-> FALSE, with_tid |-> FALSE],
     [name |-> "set_inventory_settings", only_new_tag |-> FALSE,
      with_rssi |-> TRUE, with_tid |-> FALSE],
     [name |-> "set_inventory_settings", only_new_tag |-> FALSE,
      with_rssi |-> FALSE, with_tid |-> TRUE]}

\* a caller of the operations of one command
Next == NextOf({Construct} \cup (Calls \ (EpcCalls \cup InventoryCalls)))

Spec == Init /\ [][Next]_vars

\* a caller of the inventory operations
NextInventory == NextOf({Construct} \cup InventoryCalls)

SpecInventory == Init /\ [][NextInventory]_vars

\* a caller of write_tag_epc
NextEpc == NextOf({Construct} \cup EpcCalls)

SpecEpc == Init /\ [][NextEpc]_vars

\* a caller of set_inventory_settings and get_inventory_settings
NextSettings == NextOf({Construct} \cup SettingsCalls)

\* the device sends lines of its answer to a command after the command
\* timed out; nothing takes them from the UART before the next readline
Overdue(lines) ==
    /\ pc = "done"
    /\ op.name = "_send_command"
    /\ outcomes # <<>>
    /\ outcomes[Len(outcomes)] = "TIMEOUT"
    /\ late = <<>>
    /\ late' = lines
    /\ UNCHANGED <<constructed, config, pc, op, stage, loc, outcome,
                   send_command, max_time, response, response_started, resp,
                   heard, now, written, outcomes>>

\* a caller of _send_command on a device that may answer late: a readline
\* returns the oldest line the UART holds, and lines of the command being
\* collected once the UART holds none of an earlier command
NextLate ==
    \/ \E o \in {Construct, [name |-> "_send_command", command |-> AT.INV],
                  [name |-> "_send_command", command |-> AT.INVR]} : Call(o)
    \/ ReadNone
    \/ /\ late = <<>>
       /\ \E raw \in Lines(op, stage, send_command), d \in {0, UartTimeout} :
             ReadLine(raw, d, late)
    \/ /\ late # <<>>
       /\ ReadLine(Head(late), 0, Tail(late))
    \/ \E k \in 1..3 :
          Overdue(SubSeq(<<send_command \o s_CRLF,
                           Reply(<<(IF send_command = AT.INVR THEN Prefix.INVR
                                    ELSE Prefix.INV) \o EpcA>>),
                           s_OK \o s_CRLF>>,
                         k, 3))
    \/ Return

SpecLate == Init /\ [][NextLate]_vars

SpecSettings == Init /\ [][NextSettings]_vars

\* ------------------------------------------------------------------------
\* The computations of the reader on their own: a caller hands inputs to the
\* part of an operation that computes, before or after its command, and
\* takes the value; op holds the inputs, outcome the value, send_command and
\* written the command when the part ends by writing one
\* ------------------------------------------------------------------------

\* the longest new EPC, in words
MaxWords == 32

\* the most parameters of a command
MaxParams == 3

\* the most expected tags
MaxTags == 257

\* the most calls of set_error_message on one tag
MaxCalls == 3

Apply(o, result, command, new_config) ==
    /\ pc = "idle"
    /\ pc' = "done"
    /\ op' = o
    /\ outcome' = result
    /\ send_command' = command
    /\ written' = IF command = <<>> THEN <<>> ELSE <<command_bytes(command)>>
    /\ config' = new_config
    /\ UNCHANGED <<constructed, stage, loc, max_time, response,
                   response_started, resp, heard, now, outcomes, late>>

\* write_tag_epc: the length bits of the PC word for new_epc
EpcLengthByte(new_epc) ==
    Apply([name |-> "epc_length_byte", new_epc |-> new_epc],
          Ret(epc_length_byte_of(new_epc)), <<>>, config)

\* write_tag_epc from the PC read to the write of the PC word: the read was
\* answered by one tag with the PC word data
WritePcWord(data, new_epc) ==
    Apply([name |-> "write_pc_word", data |-> data, new_epc |-> new_epc],
          NoOutcome,
          prepare_command(AT.WRT,
              write_tag_data_parameters(
                  pc_word(common_pc_byte(<<set_data(UhfTag, data)>>, 1, 0).value,
                          epc_length_byte_of(new_epc)),
                  0, s_PC, <<>>)),
          config)

\* new EPCs of whole words
WordEpcs == {[i \in 1..(4 * w) |-> "A"] : w \in 0..MaxWords}

\* a tag line of an inventory: the EPC and, by the flags, the TID, the RSSI
\* and the count of an inventory report
InventoryLine(prefix, epc, tid, rssi, seen_count) ==
    prefix \o epc \o (IF tid THEN <<",">> \o TidT ELSE <<>>)
           \o (IF rssi THEN <<",","1","8","0","7">> ELSE <<>>)
           \o (IF seen_count THEN <<",","3">> ELSE <<>>)

\* lines of the answer to AT+INV (prefix '+INV: ') or AT+INVR ('+INVR: '):
\* a tag in every layout, a second tag with a negative RSSI and the status
\* events
DecoderLines(prefix) ==
    {InventoryLine(prefix, EpcA, t, r, c) : t, r, c \in BOOLEAN}
    \cup {prefix \o EpcB \o <<",","-","5","7">>,
          prefix \o Event.NO_TAGS, prefix \o Event.ROUND_FINISHED,
          prefix \o Event.ANTENNA_ERROR}

\* _parse_inventory has run and left parsed: [kind, value, config]
ParsedInventory(o, parsed) ==
    Apply(o, [kind |-> parsed.kind, value |-> parsed.value], <<>>, parsed.config)

\* _parse_inventory as get_inventory (split_index 6) and
\* get_inventory_report (split_index 7, is_report) call it, under the
\* inventory settings with_rssi and with_tid
ParseInventory(responses, ignore_error, is_report, with_rssi, with_tid) ==
    ParsedInventory(
        [name |-> "_parse_inventory", responses |-> responses,
         split_index |-> IF is_report THEN 7 ELSE 6,
         ignore_error |-> ignore_error, is_report |-> is_report,
         with_rssi |-> with_rssi, with_tid |-> with_tid],
        parse_inventory(responses, IF is_report THEN 7 ELSE 6, ignore_error,
            is_report, set_inventory_settings(FALSE, with_rssi, with_tid, <<>>)))

\* _parse_inventory as get_inventory calls it on what the collector returned,
\* blank and stray lines included, under settings without RSSI and TID
ParseInventoryLines(responses, ignore_error) ==
    ParsedInventory(
        [name |-> "_parse_inventory_lines", responses |-> responses,
         split_index |-> Len(Prefix.INV), ignore_error |-> ignore_error],
        parse_inventory(responses, Len(Prefix.INV), ignore_error, FALSE,
            set_inventory_settings(FALSE, FALSE, FALSE, <<>>)))

\* the prefixes of the answers _parse_tag_responses is called on
TagPrefixes == {Prefix.WRT, Prefix.KILL, Prefix.LCK, Prefix.ULCK}

\* lines of the answer to a write, kill, lock or unlock: those of TagLines,
\* a second tag that reports an error and a line with an empty status
TagAnswerLines(prefix) ==
    TagLines(prefix)
    \cup {prefix \o EpcB \o <<",">> \o s_TAG_ERROR, prefix \o EpcA \o <<",">>}

\* _parse_tag_responses as write_tag_data, kill_tag, lock_tag and unlock_tag
\* call it: prefix_length is the length of the prefix of the answer
ParseTagResponses(responses, prefix_length) ==
    Apply([name |-> "_parse_tag_responses", responses |-> responses,
           prefix_length |-> prefix_length],
          parse_tag_responses(responses, prefix_length), <<>>, config)

\* the decoding of read_tag_data, on the lines its AT+READ of the memory
\* bank returned
ReadTagData(responses, memory) ==
    Apply([name |-> "read_tag_data", responses |-> responses,
           memory |-> memory],
          read_tag_data(responses, memory), <<>>, config)

\* _send_command up to its write: the command text is prepared and written
WriteCommand(command, parameters) ==
    Apply([name |-> "_send_command", command |-> command,
           parameters |-> parameters],
          NoOutcome, prepare_command(command, parameters), config)

\* parameters of a command: numbers, a text and None
Parameters == {AsInt(4), AsInt(15), AsStr(s_PC), NoneParam}

\* set_tag_size up to the write of its command
SetTagSize(tags_size, min_tags, max_tags) ==
    Apply([name |-> "set_tag_size", tags_size |-> tags_size,
           min_tags |-> min_tags, max_tags |-> max_tags],
          NoOutcome,
          prepare_command(AT.Q, set_tag_size_parameters(tags_size, min_tags,
                                                        max_tags)),
          config)

\* numbers of tags for min_tags and max_tags: none, and the numbers around
\* powers of two
TagCounts == {0, 1, 2, 3, 256, 257, 1000}

\* get_tag_size after set_tag_size, on a device that stores what AT+Q sent
\* and answers AT+Q? with it: '+Q: ' and the text after 'AT+Q='
GetTagSize ==
    /\ pc = "done"
    /\ op.name = "set_tag_size"
    /\ op' = [name |-> "get_tag_size", after |-> op]
    /\ outcome' = get_tag_size(<<Prefix.Q \o PySliceFrom(send_command,
                                                         Len(AT.Q) + 1)>>)
    /\ send_command' = AT.Q_q
    /\ written' = <<command_bytes(AT.Q_q)>>
    /\ UNCHANGED <<pc, constructed, config, stage, loc, max_time, response,
                   response_started, resp, heard, now, outcomes, late>>

\* set_tag_size of the number get_tag_size returned, with the default
\* min_tags and max_tags, up to the write of its command
SetTagSizeRead ==
    /\ pc = "done"
    /\ op.name = "get_tag_size"
    /\ outcome.kind = "return"
    /\ op' = [name |-> "set_tag_size", tags_size |-> outcome.value,
              min_tags |-> 0, max_tags |-> 256, read |-> TRUE]
    /\ outcome' = NoOutcome
    /\ send_command' = prepare_command(AT.Q, set_tag_size_parameters(
                                                 outcome.value, 0, 256))
    /\ written' = <<command_bytes(send_command')>>
    /\ UNCHANGED <<pc, constructed, config, stage, loc, max_time, response,
                   response_started, resp, heard, now, outcomes, late>>

\* Tag.set_error_message on a tag: on a new tag with an EPC, then on the tag
\* the call before left; op.calls counts the calls, outcome holds the tag
SetErrorMessage(message) ==
    /\ \/ pc = "idle"
       \/ pc = "done" /\ op.name = "set_error_message" /\ op.calls < MaxCalls
    /\ pc' = "done"
    /\ op' = [name |-> "set_error_message", message |-> message,
              calls |-> IF pc = "idle" THEN 1 ELSE op.calls + 1]
    /\ outcome' = Ret(set_error_message(IF pc = "idle" THEN set_epc(UhfTag, EpcA)
                                        ELSE outcome.value, message))
    /\ UNCHANGED <<constructed, config, stage, loc, send_command, max_time,
                   response, response_started, resp, heard, now, written,
                   outcomes, late>>

\* Tag.get_id (variant "Tag": the tid) and UhfTag.get_id (variant "UhfTag":
\* the epc, 'unknown' for an empty one)
get_id(variant, tag) ==
    IF variant = "UhfTag"
    THEN IF get_epc(tag) # <<>> THEN get_epc(tag)
         ELSE <<"u","n","k","n","o","w","n">>
    ELSE get(tag, "tid", <<>>)

\* get_id of a tag
GetId(variant, tag) ==
    Apply([name |-> "get_id", variant |-> variant, tag |-> tag],
          Ret(get_id(variant, tag)), <<>>, config)

NextFn ==
    \/ /\ pc = "idle"
       /\ \E new_epc \in WordEpcs : EpcLengthByte(new_epc)
    \/ /\ pc = "idle"
       /\ \E data \in {<<"3","0","0","0">>, <<"3","4","0","1">>,
                        <<"3","7","F","F">>, <<"F","F","F","F">>} :
             \E new_epc \in WordEpcs : WritePcWord(data, new_epc)
    \/ \E message \in {Some(s_ACCESS_ERROR), Some(s_TAG_ERROR), Some(<<>>), None} :
          SetErrorMessage(message)
    \/ GetTagSize
    \/ SetTagSizeRead
    \/ /\ pc = "idle"
       /\ \E variant \in {"Tag", "UhfTag"} :
             \E tag \in {UhfTag, set_epc(UhfTag, EpcA), set_tid(UhfTag, TidT),
                          set_epc(UhfTag, <<>>), set_tid(UhfTag, <<>>),
                          set_tid(set_epc(UhfTag, EpcA), TidT)} :
                GetId(variant, tag)
    \/ /\ pc = "idle"
       /\ \E tags_size \in (1..MaxTags) \cup {1000}, min_tags, max_tags \in TagCounts :
             SetTagSize(tags_size, min_tags, max_tags)
    \/ /\ pc = "idle"
       /\ \E command \in {AT.Q, AT.READ} :
             \E parameters \in {<<>>} \cup SeqsUpTo(Parameters, MaxParams) :
                WriteCommand(command, parameters)
    \/ /\ pc = "idle"
       /\ \E prefix \in TagPrefixes :
             \E responses \in SeqsUpTo(TagAnswerLines(prefix), MaxReplyTags) :
                ParseTagResponses(responses, Len(prefix))
    \/ /\ pc = "idle"
       /\ \E ignore_error, is_report, with_rssi, with_tid \in BOOLEAN :
             \E responses \in SeqsUpTo(DecoderLines(IF is_report THEN Prefix.INVR
                                                     ELSE Prefix.INV),
                                        MaxReplyTags) :
                ParseInventory(responses, ignore_error, is_report, with_rssi,
                               with_tid)
    \/ /\ pc = "idle"
       /\ \E ignore_error \in BOOLEAN :
             \E responses \in SeqsUpTo(
                     {<<>>, s_OK, Prefix.INV \o EpcA, Prefix.INV \o EpcB,
                      Prefix.INV \o Event.ROUND_FINISHED,
                      Prefix.INV \o Event.ROUND_FINISHED_1,
                      Prefix.INV \o Event.ANTENNA_ERROR},
                     MaxLines) :
                ParseInventoryLines(responses, ignore_error)
    \/ /\ pc = "idle"
       /\ \E memory \in {s_PC, s_EPC, s_USR, s_TID} :
             \E responses \in SeqsUpTo(ReadLines, MaxReplyTags) :
                ReadTagData(responses, memory)
    \/ Return

SpecFn == Init /\ [][NextFn]_vars

\* ------------------------------------------------------------------------
\* The collector's contract
\* ------------------------------------------------------------------------

LastOf(s) == s[Len(s)]

\* this step ends the command being collected, with status
CommandEndsIn(status) ==
    /\ pc = "reading"
    /\ Len(outcomes') = Len(outcomes) + 1
    /\ LastOf(outcomes') = status

\* the place of the last c in s, 0 when there is none
LastPlace(s, c) ==
    CHOOSE i \in 0..Len(s) :
        (i = 0 \/ s[i] = c) /\ \A j \in (i + 1)..Len(s) : s[j] # c

\* C1, as amended: a command reaches SUCCESS only at a line equal to OK that
\* is read in ACCUMULATING, that is once the echo of the command was seen or
\* when no echo is awaited; no other line and no timeout yields SUCCESS
C1_SuccessOnlyAtOkInAccumulating ==
    [][CommandEndsIn("SUCCESS") => (resp' = s_OK /\ response_started)]_vars

\* set_power ended in SUCCESS at the OK that followed the echo, no other line
\* having been read
C1_SuccessRightAfterEcho ==
    /\ pc = "done"
    /\ op.name = "set_power"
    /\ outcomes = <<"SUCCESS">>
    /\ resp = s_OK
    /\ response_started
    /\ ~heard
    /\ outcome.kind = "return"

\* C1, as claimed: a command reaches SUCCESS only at a line equal to OK read
\* after at least one line of the command other than the echo was read
C1_SuccessOnlyAfterNonEchoLine ==
    [][CommandEndsIn("SUCCESS") => (resp' = s_OK /\ heard)]_vars

\* C2: a line equal to ERROR read in ACCUMULATING fails the command with
\* RfidReaderException; the message is the text between the last '<' and the
\* last '>' of the accumulated body, and the whole body when the body has no
\* angle bracket
C2_ErrorDetail ==
    [][(CommandEndsIn("FAILURE") /\ pc' = "done") =>
         LET lt == LastPlace(response, "<")
             gt == LastPlace(response, ">")
         IN  /\ resp' = s_ERROR
             /\ response_started
             /\ outcome'.kind = "RfidReaderException"
             /\ (lt > 0 /\ lt < gt) =>
                    outcome'.value = SubSeq(response, lt + 1, gt - 1)
             /\ (lt = 0 /\ gt = 0) => outcome'.value = response]_vars

\* a command failed at ERROR after the body '<ACCESS ERROR>': the message is
\* 'ACCESS ERROR'
C2_AccessErrorDetail ==
    /\ pc = "done"
    /\ outcomes # <<>>
    /\ LastOf(outcomes) = "FAILURE"
    /\ response = <<"<">> \o s_ACCESS_ERROR \o <<">">>
    /\ outcome = RfidReaderException(s_ACCESS_ERROR)

\* C3: a command that ends in TIMEOUT raises RfidReaderException: 'no reader
\* response for command <cmd>' when the accumulated body is empty, also when
\* lines were read and discarded before the echo, and 'wrong response for
\* command <cmd> - <body>' when a line was accumulated
C3_TimeoutMessage ==
    [][(CommandEndsIn("TIMEOUT") /\ pc' = "done") =>
         /\ outcome'.kind = "RfidReaderException"
         /\ response = <<>> =>
                outcome'.value = Message.no_reader_response \o send_command
         /\ response # <<>> =>
                outcome'.value =
                    Message.wrong_response \o send_command \o Message.sep \o response]_vars

\* a command timed out after lines that were discarded before the echo
C3_TimeoutAfterDiscardedLines ==
    /\ pc = "done"
    /\ outcomes # <<>>
    /\ LastOf(outcomes) = "TIMEOUT"
    /\ heard
    /\ ~response_started
    /\ response = <<>>
    /\ outcome = RfidReaderException(Message.no_reader_response \o send_command)

\* C4, as claimed: whatever lines the transport delivers, a command is no
\* longer collected once its deadline has passed
C4_EndsOnceDeadlinePassed ==
    pc = "reading" => now <= max_time

\* C5: every command written to the transport has ended in SUCCESS, FAILURE
\* or TIMEOUT before the next one is written: all but the last written
\* command have ended, and the last is outstanding only while it is collected
C5_OneOutstandingCommand ==
    /\ Len(written) = Len(outcomes) + (IF pc = "reading" THEN 1 ELSE 0)
    /\ \A i \in 1..Len(outcomes) :
           outcomes[i] \in {"SUCCESS", "FAILURE", "TIMEOUT"}

\* write_tag_epc collects its third command, the two before it have ended
C5_ThirdCommandOfWriteTagEpc ==
    /\ pc = "reading"
    /\ op.name = "write_tag_epc"
    /\ stage = "write_pc"
    /\ Len(written) = 3
    /\ outcomes = <<"SUCCESS", "SUCCESS">>

\* C6, as claimed: an operation of the reader returns a result or raises
\* RfidReaderException, whatever lines its command returned
C6_OnlyRfidReaderException ==
    (pc = "done" /\ op.name # "construct") =>
        outcome.kind \in {"return", "RfidReaderException"}

\* ------------------------------------------------------------------------
\* The contract of write_tag_epc
\* ------------------------------------------------------------------------

\* the elements of a sequence
Range(s) == {s[i] : i \in 1..Len(s)}

\* the PC words without their length bits in the answer body to the PC read
PcBases(body) ==
    LET fields(l) == Split(PySliceFrom(l, 7), ",")
    IN  {PyInt(fields(l)[3], 16).v % 2048 :
            l \in {m \in Range(Split(body, "\r")) :
                      Len(fields(m)) = 3 /\ fields(m)[2] = s_OK}}

\* C7, as claimed: when the answer to the PC read shows more than one base
\* PC value, write_tag_epc raises the field-ambiguity error and sends no
\* write command
C7_DifferentBasesAbort ==
    [][(/\ op.name = "write_tag_epc"
        /\ stage = "read_pc"
        /\ CommandEndsIn("SUCCESS")
        /\ Cardinality(PcBases(response)) > 1)
       => (/\ pc' = "done"
           /\ outcome' = RfidReaderException(Message.different_tags)
           /\ written' = written)]_vars

\* write_tag_epc without a tid has returned its result after the PC write:
\* loc.tags is the dict left by the loop over the EPC write's answer,
\* response the answer body of the PC write, outcome.value the result
EpcResult ==
    /\ pc = "done"
    /\ op.name = "write_tag_epc"
    /\ stage = "write_pc"
    /\ outcome.kind = "return"

\* the answers of the PC write
PcAnswers == parse_tag_responses(Split(response, "\r"), 6).value

EpcWriteOk(e) == dict_has(loc.tags, e) /\ ~has_error(dict_get(loc.tags, e)[1])

EpcWriteError(e) == dict_has(loc.tags, e) /\ has_error(dict_get(loc.tags, e)[1])

\* the answers of the PC write for the tag e that report an error, that
\* report OK
PcErrors(e) ==
    {i \in 1..Len(PcAnswers) :
        get_epc(PcAnswers[i]) = e /\ has_error(PcAnswers[i])}

PcOks(e) ==
    {i \in 1..Len(PcAnswers) :
        get_epc(PcAnswers[i]) = e /\ ~has_error(PcAnswers[i])}

\* the records of the result for the tag that answered with the EPC e
RecordsOf(e) ==
    {i \in 1..Len(outcome.value) :
        get(outcome.value[i], "old_epc", get_epc(outcome.value[i])) = e}

\* C8, as claimed: a tag whose EPC write reported OK and whose PC write
\* reported an error has exactly one record in the result, with has_error
\* and the message 'epc written, epc length not updated!'
C8_LengthNotUpdated ==
    EpcResult =>
        \A e \in {EpcA, EpcB} :
            (EpcWriteOk(e) /\ PcErrors(e) # {}) =>
                /\ Cardinality(RecordsOf(e)) = 1
                /\ \A i \in RecordsOf(e) :
                       /\ has_error(outcome.value[i])
                       /\ get_error_message(outcome.value[i])
                              = Message.length_not_updated

\* C9, as claimed: a tag whose EPC write and PC write both reported an error
\* has the message 'epc not written - ' followed by the error text of the PC
\* write
C9_BothFailed ==
    EpcResult =>
        \A e \in {EpcA, EpcB} :
            (EpcWriteError(e) /\ PcErrors(e) # {}) =>
                \E i \in RecordsOf(e), j \in PcErrors(e) :
                    get_error_message(outcome.value[i])
                        = Message.epc_not_written \o get_error_message(PcAnswers[j])

\* C10, as claimed: a tag whose EPC write failed, by an error status or by
\* its absence from the answer, and whose PC write reported OK has a record
\* in the result with has_error and the message 'epc not written, but epc
\* length updated!'
C10_LengthUpdatedOnly ==
    EpcResult =>
        \A e \in {EpcA, EpcB} :
            (~EpcWriteOk(e) /\ PcOks(e) # {} /\ PcErrors(e) = {}) =>
                \E i \in RecordsOf(e) :
                    /\ has_error(outcome.value[i])
                    /\ get_error_message(outcome.value[i])
                           = Message.but_length_updated

\* ------------------------------------------------------------------------
\* C11: the result of write_tag_epc
\* ------------------------------------------------------------------------

\* the EPC write answered OK, answered an error, for a tag with the EPC e:
\* loc.inventory_epc is the answer as the loop over it left it
EpcAnswerOk(e) ==
    \E i \in 1..Len(loc.inventory_epc) :
        get(loc.inventory_epc[i], "old_epc", <<>>) = e

EpcAnswerError(e) ==
    \E i \in 1..Len(loc.inventory_epc) :
        /\ has_error(loc.inventory_epc[i])
        /\ get_epc(loc.inventory_epc[i]) = e

\* C11, as claimed: the result of write_tag_epc has one record per distinct
\* pre-rewrite EPC among the affected tags (those in the answer of the EPC
\* write and those whose PC write reported OK); the record carries the new
\* EPC and old_epc exactly when the EPC write for that tag reported OK and
\* the pre-rewrite EPC otherwise; a tag for which both writes reported OK has
\* no error; a tag absent from the answer of the EPC write whose PC write
\* failed has no record
C11_OneRecordPerEpc ==
    EpcResult =>
        \A e \in {EpcA, EpcB} :
            /\ Cardinality(RecordsOf(e))
                   = IF EpcAnswerOk(e) \/ EpcAnswerError(e) \/ PcOks(e) # {}
                     THEN 1 ELSE 0
            /\ \A i \in RecordsOf(e) :
                   IF EpcAnswerOk(e)
                   THEN /\ get_epc(outcome.value[i]) = op.new_epc
                        /\ get(outcome.value[i], "old_epc", <<>>) = e
                   ELSE /\ get_epc(outcome.value[i]) = e
                        /\ "old_epc" \notin DOMAIN outcome.value[i]
            /\ (EpcAnswerOk(e) /\ PcOks(e) # {} /\ PcErrors(e) = {}) =>
                   \A i \in RecordsOf(e) : ~has_error(outcome.value[i])
            /\ (/\ ~EpcAnswerOk(e)
                /\ ~EpcAnswerError(e)
                /\ PcErrors(e) # {}
                /\ PcOks(e) = {}) => RecordsOf(e) = {}

\* ------------------------------------------------------------------------
\* C12: the mask after write_tag_epc with a tid
\* ------------------------------------------------------------------------

\* write_tag_epc with a tid has returned its result after the command that
\* restores the mask: loc.mask_settings is what get_mask reported
EpcRestored ==
    /\ pc = "done"
    /\ op.name = "write_tag_epc"
    /\ op.tid # <<>>
    /\ stage = "restore"
    /\ outcome.kind = "return"

\* C12, as claimed: when write_tag_epc with a tid returns normally, its last
\* mask command re-establishes what get_mask reported at the start: AT+MSK
\* with the same memory bank, start and mask value, in the positions of the
\* mask-set command, when a mask was enabled, and AT+MSK=OFF otherwise
C12_MaskRestored ==
    EpcRestored =>
        LastOf(written)
            = IF loc.mask_settings.enabled
              THEN AT.MSK \o <<"=">> \o loc.mask_settings.memory \o <<",">>
                       \o IntToStr(loc.mask_settings.start) \o <<",">>
                       \o loc.mask_settings.mask \o s_CR
              ELSE AT.MSK \o <<"=">> \o s_OFF \o s_CR

\* ------------------------------------------------------------------------
\* C13: write_tag_epc with a new EPC that is not a whole number of words
\* ------------------------------------------------------------------------

\* C13: a call of write_tag_epc whose new EPC has a length that is not a
\* multiple of 4 ends at once with the exception ' The new epc length must be
\* a multiple of 4': no command is written and none is collected
C13_BadLengthWritesNothing ==
    (op.name = "write_tag_epc" /\ Len(op.new_epc) % 4 # 0) =>
        /\ pc = "done"
        /\ outcome = RfidReaderException(Message.epc_length)
        /\ written = <<>>
        /\ outcomes = <<>>

\* write_tag_epc was called with a tid and a new EPC of 6 characters and has
\* raised without writing
C13_SixCharactersRejected ==
    /\ pc = "done"
    /\ op.name = "write_tag_epc"
    /\ op.tid = TidT
    /\ Len(op.new_epc) = 6
    /\ outcome.kind = "RfidReaderException"
    /\ written = <<>>

\* ------------------------------------------------------------------------
\* C14: the length bits of the PC word
\* ------------------------------------------------------------------------

\* C14: for a new EPC of w words the length bits are floor(w / 2) shifted
\* left by 12 with the bit 0x0800 set exactly when w is odd, and no lower
\* bit: 1 << 12 without the bit for 2 words, the bit alone for 1 word
C14_LengthBits ==
    (pc = "done" /\ op.name = "epc_length_byte") =>
        LET w == Len(op.new_epc) \div 4
        IN  /\ outcome.kind = "return"
            /\ outcome.value \div 4096 = w \div 2
            /\ ((outcome.value \div 2048) % 2 = 1) <=> (w % 2 = 1)
            /\ outcome.value % 2048 = 0
            /\ w = 2 => outcome.value = 4096
            /\ w = 1 => outcome.value = 2048

\* the length bits of a new EPC of 3 words have been computed: 0x1800
C14_ThreeWords ==
    /\ pc = "done"
    /\ op.name = "epc_length_byte"
    /\ Len(op.new_epc) = 12
    /\ outcome.value = 6144

\* ------------------------------------------------------------------------
\* C15, C16: the inventory decoder
\* ------------------------------------------------------------------------

\* _parse_inventory has run on op.responses
Decoded == pc = "done" /\ op.name = "_parse_inventory"

\* the prefix of the lines of the decoded answer
DecodedPrefix == IF op.is_report THEN Prefix.INVR ELSE Prefix.INV

\* the line is a status event: '<' follows its prefix
IsEventLine(line) == line[Len(DecodedPrefix) + 1] = "<"

\* the tag lines of the decoded answer, in their order
DecodedTagLines == SelectSeq(op.responses, LAMBDA line : ~IsEventLine(line))

\* the fields of a line after its prefix
FieldsOf(line) == Split(SubSeq(line, Len(DecodedPrefix) + 1, Len(line)), ",")

\* the record is the one of the tag line: its EPC is the first field, its
\* TID the second only under with_tid, its RSSI the number in the third field
\* under with_tid and with_rssi and in the second under with_rssi alone, its
\* seen_count the number in the last field only in report mode
RecordOfLine(tag, line) ==
    /\ get_epc(tag) = FieldsOf(line)[1]
    /\ IF op.with_tid
       THEN /\ Len(FieldsOf(line)) >= 2
            /\ get(tag, "tid", <<>>) = FieldsOf(line)[2]
       ELSE "tid" \notin DOMAIN tag
    /\ IF op.with_rssi
       THEN /\ Len(FieldsOf(line)) >= (IF op.with_tid THEN 3 ELSE 2)
            /\ get(tag, "rssi", <<>>)
                  = PyInt(FieldsOf(line)[IF op.with_tid THEN 3 ELSE 2], 10).v
       ELSE "rssi" \notin DOMAIN tag
    /\ IF op.is_report
       THEN get(tag, "seen_count", <<>>)
               = PyInt(FieldsOf(line)[Len(FieldsOf(line))], 10).v
       ELSE "seen_count" \notin DOMAIN tag

\* the tag lines of the decoded answer have the layout of the settings, and
\* no event of the answer is an error that is not ignored
DecodableAnswer ==
    /\ \A i \in 1..Len(DecodedTagLines) :
          \/ DecodedTagLines[i] = InventoryLine(DecodedPrefix, EpcA, op.with_tid,
                                                op.with_rssi, op.is_report)
          \/ /\ DecodedTagLines[i] = DecodedPrefix \o EpcB \o <<",","-","5","7">>
             /\ op.with_rssi /\ ~op.with_tid /\ ~op.is_report
    /\ \/ op.ignore_error
       \/ \A i \in 1..Len(op.responses) :
             op.responses[i] # DecodedPrefix \o Event.ANTENNA_ERROR

\* C15: the inventory decoder returns for an answer whose tag lines have the
\* layout of the settings, and what it returns has exactly one record per tag
\* line, in the order of the lines, each with the fields of its line;
\* '+INV: AA,1807' under with_rssi without with_tid gives one tag with the
\* EPC 'AA' and the RSSI 1807
C15_OneRecordPerTagLine ==
    Decoded =>
        /\ DecodableAnswer => outcome.kind = "return"
        /\ outcome.kind = "return" =>
              /\ Len(outcome.value) = Len(DecodedTagLines)
              /\ \A j \in 1..Len(DecodedTagLines) :
                    RecordOfLine(outcome.value[j], DecodedTagLines[j])
        /\ (/\ op.responses = <<InventoryLine(Prefix.INV, EpcA, FALSE, TRUE, FALSE)>>
            /\ op.with_rssi /\ ~op.with_tid /\ ~op.is_report) =>
              outcome = Ret(<<[epc |-> EpcA, timestamp |-> WallClock,
                               rssi |-> 1807]>>)

\* two tag lines with TID, RSSI and count were decoded in report mode under
\* with_tid and with_rssi
C15_ReportOfTwoLines ==
    /\ Decoded
    /\ op.is_report /\ op.with_tid /\ op.with_rssi
    /\ Len(DecodedTagLines) = 2
    /\ outcome.kind = "return"
    /\ Len(outcome.value) = 2
    /\ outcome.value[2].tid = TidT
    /\ outcome.value[2].rssi = 1807
    /\ outcome.value[2].seen_count = 3

\* C16: the line '+INV: <NO TAGS FOUND>' alone decodes to no tag and no
\* error, and a status event line never gives a record: what the decoder
\* returns has as many records as the answer has lines that are not events,
\* and no record has the text of an event for its EPC
C16_EventsGiveNoRecord ==
    Decoded =>
        /\ op.responses = <<DecodedPrefix \o Event.NO_TAGS>> =>
              /\ outcome = Ret(<<>>)
              /\ "error" \notin DOMAIN config
        /\ outcome.kind = "return" =>
              /\ Len(outcome.value) = Len(DecodedTagLines)
              /\ \A j \in 1..Len(outcome.value) :
                    Head(get_epc(outcome.value[j])) # "<"

\* an answer of a tag line and the no-tags event was decoded to one record
C16_TagAndNoTagsEvent ==
    /\ Decoded
    /\ Len(op.responses) = 2
    /\ op.responses[2] = DecodedPrefix \o Event.NO_TAGS
    /\ Len(DecodedTagLines) = 1
    /\ outcome.kind = "return"
    /\ Len(outcome.value) = 1

\* ------------------------------------------------------------------------
\* C17: the decoder of the answers of tag operations
\* ------------------------------------------------------------------------

\* _parse_tag_responses has run on op.responses
TagsDecoded == pc = "done" /\ op.name = "_parse_tag_responses"

\* the lines of the answer that are not status events, in their order
AnswerTagLines ==
    SelectSeq(op.responses, LAMBDA line : line[op.prefix_length + 1] # "<")

\* the fields of a line of the answer after its prefix
AnswerFields(line) ==
    Split(SubSeq(line, op.prefix_length + 1, Len(line)), ",")

\* every tag line of the answer has an EPC and a status text
StatusOnEveryLine ==
    \A i \in 1..Len(AnswerTagLines) :
        /\ Len(AnswerFields(AnswerTagLines[i])) >= 2
        /\ AnswerFields(AnswerTagLines[i])[2] # <<>>

InfoLines == Split(response, "\r")

\* get_reader_info has ended on an answer of a firmware line with a version
\* of four digits, a hardware line and a serial number line
InfoAnswered ==
    /\ pc = "done"
    /\ op.name = "get_reader_info"
    /\ outcomes = <<"SUCCESS">>
    /\ Len(InfoLines) = 3
    /\ InfoLines[1] \in {InfoLine.SW, InfoLine.SW_new, InfoLine.SW_other}
    /\ InfoLines[2] \in {InfoLine.HW, InfoLine.HW_other}
    /\ InfoLines[3] = InfoLine.SERIAL

\* the names and the version of the answer: the version in hundredths, its
\* first two digits the major and its next two the minor part
AnsweredFirmware == Split(InfoLines[1], " ")[2]

AnsweredHardware == Split(InfoLines[2], " ")[2]

AnsweredVersion ==
    100 * DigitsValue(SubSeq(Split(InfoLines[1], " ")[3], 1, 2), 10)
        + DigitsValue(SubSeq(Split(InfoLines[1], " ")[3], 3, 4), 10)

BeginsWith(s, p) == Len(s) >= Len(p) /\ SubSeq(s, 1, Len(p)) = p

\* C18, as claimed: get_reader_info returns the reader info exactly when the
\* hardware name and the firmware name are the expected ones and the firmware
\* version is not below the minimum (1.3 for QRG2); otherwise it raises
\* RfidReaderException with a message of its own for each mismatch: wrong
\* reader type, wrong firmware, firmware too low for a version below the
\* minimum
C18_InfoOrMismatch ==
    InfoAnswered =>
        IF AnsweredHardware # expected_hardware_name
        THEN /\ outcome.kind = "RfidReaderException"
             /\ BeginsWith(outcome.value, Message.wrong_type)
        ELSE IF AnsweredFirmware # expected_firmware_name
        THEN /\ outcome.kind = "RfidReaderException"
             /\ BeginsWith(outcome.value, Message.wrong_firmware)
        ELSE IF AnsweredVersion < expected_min_firmware
        THEN /\ outcome.kind = "RfidReaderException"
             /\ BeginsWith(outcome.value, Message.too_low)
        ELSE /\ outcome.kind = "return"
             /\ outcome.value.firmware = AnsweredFirmware
             /\ outcome.value.hardware = AnsweredHardware

\* ------------------------------------------------------------------------
\* C19: the framing of a command
\* ------------------------------------------------------------------------

\* _send_command has prepared and written the command of op
CommandWritten == pc = "done" /\ op.name = "_send_command"

\* the parameters of the command that are not None, in their order
PresentParameters == SelectSeq(op.parameters, LAMBDA x : x # NoneParam)

\* the text of a parameter
TextOf(x) ==
    CASE x = AsInt(4) -> <<"4">>
      [] x = AsInt(15) -> <<"1","5">>
      [] x = AsStr(s_PC) -> <<"P","C">>

RECURSIVE CommaSeparated(_)
\* the texts of the parameters xs (at least one), a comma between two
CommaSeparated(xs) ==
    IF Len(xs) = 1 THEN TextOf(xs[1])
    ELSE TextOf(xs[1]) \o <<",">> \o CommaSeparated(Tail(xs))

\* C19: a command with at least one parameter that is not None is framed as
\* the verb, '=', and the texts of the parameters that are not None in their
\* order with a comma between two, a None giving neither text nor comma
\* ('AT+Q' with 4, None, 15 is 'AT+Q=4,15'); a command without parameters is
\* the bare verb; what is written is the command followed by one carriage
\* return, without line feed
C19_Framing ==
    CommandWritten =>
        /\ PresentParameters # <<>> =>
              send_command = op.command \o <<"=">> \o CommaSeparated(PresentParameters)
        /\ op.parameters = <<>> => send_command = op.command
        /\ (op.command = AT.Q /\ op.parameters = <<AsInt(4), NoneParam, AsInt(15)>>)
              => send_command = <<"A","T","+","Q","=","4",",","1","5">>
        /\ Len(written) = 1
        /\ written[1] = send_command \o <<"\r">>
        /\ \A i \in 1..Len(written[1]) :
              /\ written[1][i] # "\n"
              /\ written[1][i] = "\r" => i = Len(written[1])

\* 'AT+Q' with the parameters 4, None, 15 was written
C19_NoneBetweenTwo ==
    /\ CommandWritten
    /\ op.command = AT.Q
    /\ op.parameters = <<AsInt(4), NoneParam, AsInt(15)>>
    /\ written = <<<<"A","T","+","Q","=","4",",","1","5","\r">>>>

\* ------------------------------------------------------------------------
\* C20: the Q exponents of set_tag_size
\* ------------------------------------------------------------------------

\* set_tag_size has written its command
TagSizeWritten == pc = "done" /\ op.name = "set_tag_size"

\* the parameters of the written command, as texts
WrittenQ == Split(SubSeq(send_command, Len(AT.Q) + 2, Len(send_command)), ",")

\* q is the smallest exponent with 2 ^ q >= n
IsSmallestQ(q, n) == 2 ^ q >= n /\ (q = 0 \/ 2 ^ (q - 1) < n)

\* the text is the number of the smallest exponent for n, in digits alone
SmallestQText(text, n) ==
    /\ \A i \in 1..Len(text) : DigitVal(text[i], 10) >= 0
    /\ IsSmallestQ(DigitsValue(text, 10), n)

\* C20: for a tag count n >= 1 set_tag_size sends the smallest integer q
\* with 2 ^ q >= n (0 for 1, 1 for 2, 2 for 3, 8 for 256, 9 for 257), for
\* the expected number of tags, for min_tags and for max_tags each on its own
C20_SmallestExponent ==
    TagSizeWritten =>
        /\ SmallestQText(WrittenQ[1], op.tags_size)
        /\ op.min_tags >= 1 => SmallestQText(WrittenQ[2], op.min_tags)
        /\ op.max_tags >= 1 => SmallestQText(WrittenQ[3], op.max_tags)
        /\ op.tags_size = 1 => WrittenQ[1] = <<"0">>
        /\ op.tags_size = 2 => WrittenQ[1] = <<"1">>
        /\ op.tags_size = 3 => WrittenQ[1] = <<"2">>
        /\ op.tags_size = 256 => WrittenQ[1] = <<"8">>
        /\ op.tags_size = 257 => WrittenQ[1] = <<"9">>
        /\ op.min_tags = 3 => WrittenQ[2] = <<"2">>
        /\ op.max_tags = 257 => WrittenQ[3] = <<"9">>

\* set_tag_size(257, 2, 256) has written 'AT+Q=9,1,8'
C20_ThreeExponents ==
    /\ TagSizeWritten
    /\ op.tags_size = 257 /\ op.min_tags = 2 /\ op.max_tags = 256
    /\ send_command = <<"A","T","+","Q","=","9",",","1",",","8">>

\* ------------------------------------------------------------------------
\* C21: the inventory settings in the configuration mirror
\* ------------------------------------------------------------------------

\* the inventory settings a call of set_inventory_settings asks for
AskedSettings(o) ==
    [only_new_tag |-> o.only_new_tag, with_rssi |-> o.with_rssi,
     with_tid |-> o.with_tid]

\* this step ends the one command of a call of set_inventory_settings
SetterEnds ==
    /\ pc = "reading"
    /\ op.name = "set_inventory_settings"
    /\ pc' = "done"

\* C21: the inventory settings of self._config are those of the last call
\* of set_inventory_settings that returned: the step that ends such a call in
\* SUCCESS puts the settings asked for into the configuration, the step that
\* ends it in FAILURE or TIMEOUT raises and leaves the configuration as it
\* is, and no other step of a constructed reader, a step of
\* get_inventory_settings among them, changes the configuration
C21_MirrorFollowsSetter ==
    [][/\ (SetterEnds /\ LastOf(outcomes') = "SUCCESS") =>
              /\ outcome'.kind = "return"
              /\ config' # <<>>
              /\ config'["inventory"] = AskedSettings(op)
       /\ (SetterEnds /\ LastOf(outcomes') # "SUCCESS") =>
              /\ outcome'.kind = "RfidReaderException"
              /\ config' = config
       /\ (constructed /\ ~SetterEnds) => config' = config]_vars

\* a call of set_inventory_settings(True, False, False) has raised after a
\* timeout, on a reader whose settings are still those of the constructor
C21_FailedSetterKeepsSettings ==
    /\ pc = "done"
    /\ op.name = "set_inventory_settings"
    /\ op.only_new_tag
    /\ outcomes = <<"TIMEOUT">>
    /\ outcome.kind = "RfidReaderException"
    /\ config["inventory"]
          = [only_new_tag |-> FALSE, with_rssi |-> TRUE, with_tid |-> TRUE]

\* ------------------------------------------------------------------------
\* C22, C23: the tag record
\* ------------------------------------------------------------------------

\* set_error_message has been called on the tag in outcome.value, last with
\* op.message
MessageSet == pc = "done" /\ op.name = "set_error_message"

\* C22: after any sequence of calls of set_error_message on a tag, has_error
\* is true exactly when get_error_message is not empty; after a call with a
\* message that is not empty has_error is true and the message is read back,
\* after a call with an empty message or None has_error is false and the
\* message read back is empty
C22_HasErrorIffMessage ==
    MessageSet =>
        /\ has_error(outcome.value) <=> (get_error_message(outcome.value) # <<>>)
        /\ (op.message # None /\ op.message # Some(<<>>)) =>
              /\ has_error(outcome.value)
              /\ get_error_message(outcome.value) = op.message[1]
        /\ (op.message = None \/ op.message = Some(<<>>)) =>
              /\ ~has_error(outcome.value)
              /\ get_error_message(outcome.value) = <<>>

\* a third call of set_error_message, with None, on a tag that had an error
\* message has left it without error
C22_ClearedByNone ==
    /\ MessageSet
    /\ op.calls = 3
    /\ op.message = None
    /\ "has_error" \in DOMAIN outcome.value
    /\ ~outcome.value.has_error
    /\ "error_message" \notin DOMAIN outcome.value

\* C23, as claimed: get_id returns the epc of a UhfTag and the tid of a Tag
\* when that identity is present and not empty, and 'unknown' when it is
\* absent, for both
C23_IdOrUnknown ==
    (pc = "done" /\ op.name = "get_id") =>
        LET identity == IF op.variant = "UhfTag" THEN get(op.tag, "epc", <<>>)
                        ELSE get(op.tag, "tid", <<>>)
        IN  outcome = Ret(IF identity # <<>> THEN identity
                          ELSE <<"u","n","k","n","o","w","n">>)

\* ------------------------------------------------------------------------
\* C24: the tag size read back
\* ------------------------------------------------------------------------

\* get_tag_size has returned after set_tag_size(op.after.tags_size, ...)
TagSizeRead == pc = "done" /\ op.name = "get_tag_size"

RECURSIVE IsPowerOfTwo(_)
\* t is 1, 2, 4, 8, ...
IsPowerOfTwo(t) == t = 1 \/ (t > 1 /\ t % 2 = 0 /\ IsPowerOfTwo(t \div 2))

\* t is the smallest power of two that is at least n
IsSmallestPower(t, n) ==
    /\ t \in Nat
    /\ IsPowerOfTwo(t)
    /\ t >= n
    /\ t = 1 \/ t \div 2 < n

\* C24: on a device that stores the exponent it is sent and reports it back,
\* set_tag_size(n) followed by get_tag_size() returns the smallest power of
\* two that is at least n; so for a t that get_tag_size returned,
\* set_tag_size(t) followed by get_tag_size() returns t
C24_RoundTrip ==
    TagSizeRead =>
        /\ outcome.kind = "return"
        /\ IsSmallestPower(outcome.value, op.after.tags_size)
        /\ "read" \in DOMAIN op.after => outcome.value = op.after.tags_size

\* get_tag_size has returned 1024 after set_tag_size(1024), 1024 being what
\* get_tag_size returned before
C24_ReadBack1024 ==
    /\ TagSizeRead
    /\ "read" \in DOMAIN op.after
    /\ op.after.tags_size = 1024
    /\ outcome = Ret(1024)

\* ------------------------------------------------------------------------
\* C25, C26: the collector before and after the echo
\* ------------------------------------------------------------------------

\* this step reads a line while the command waits for its echo
LineBeforeEcho == pc = "reading" /\ ~response_started /\ resp' # NoData

\* this step leaves the command being collected as the same command
SameCommand == pc' = "reading" /\ written' = written /\ outcomes' = outcomes

\* C25: while a command waits for its echo, a line that does not contain the
\* command text is discarded, OK and ERROR included: it does not end the
\* command and is not taken into the body; the command starts to accumulate
\* only at a line that contains the command text, and that line is not part
\* of the body; a command written with the echo expectation off (the ATE1 of
\* the constructor, and no other) accumulates from its start
C25_EchoGate ==
    [][/\ (LineBeforeEcho /\ ~Contains(send_command, resp')) =>
              /\ SameCommand
              /\ ~response_started'
              /\ response' = <<>>
       /\ (LineBeforeEcho /\ SameCommand /\ response_started') =>
              /\ Contains(send_command, resp')
              /\ response' = <<>>
       /\ LineBeforeEcho => response = <<>>
       /\ (pc' = "reading" /\ written' # written) =>
              /\ response' = <<>>
              /\ response_started' = (op'.name = "construct" /\ stage' = "ATE1")]_vars

\* a command that waits for its echo has just read a line OK, and still
\* waits
C25_OkBeforeEchoDiscarded ==
    /\ pc = "reading"
    /\ constructed
    /\ ~response_started
    /\ heard
    /\ resp = s_OK
    /\ response = <<>>
    /\ outcomes = <<>>

\* this step reads a line while the command accumulates
LineAfterEcho == pc = "reading" /\ response_started /\ resp' # NoData

\* C26: while a command accumulates, a line that is not empty and does not
\* end the command replaces the body, and an empty line leaves it; at a line
\* OK _send_command returns the body split at its carriage returns (the
\* lines joined by carriage returns are the body, and no line holds one),
\* and for an empty body the list of the one empty string, never an empty
\* list
C26_BodyReturned ==
    [][/\ (LineAfterEcho /\ SameCommand) =>
              response' = IF resp' = <<>> THEN response ELSE resp'
       /\ (CommandEndsIn("SUCCESS") /\ op.name = "_send_command") =>
              /\ resp' = s_OK
              /\ outcome'.kind = "return"
              /\ Len(outcome'.value) >= 1
              /\ Join(outcome'.value, s_CR) = response
              /\ \A i \in 1..Len(outcome'.value) :
                     ~Contains(s_CR, outcome'.value[i])
              /\ response = <<>> => outcome'.value = << <<>> >>]_vars

\* _send_command('ATI') has returned the three lines of an answer, a line
\* other than the echo having been read before that answer
C26_LastBodyOfThreeLines ==
    /\ pc = "done"
    /\ op.name = "_send_command"
    /\ outcome.kind = "return"
    /\ Len(outcome.value) = 3
    /\ outcome.value[1] = InfoLine.SW
    /\ heard

\* ------------------------------------------------------------------------
\* C27: lines that arrive after a timeout
\* ------------------------------------------------------------------------

\* this step reads a line that the device sent for an earlier command
LateLineRead == pc = "reading" /\ late # <<>> /\ late' = Tail(late)

\* C27, as claimed: a line the device sent for a command that timed out,
\* read while the next command is collected, does not end that command and
\* is not taken into its body, also when the text of the next command is
\* the text of the earlier one or is contained in it
C27_LateLinesIgnored ==
    [][LateLineRead => (SameCommand /\ response' = response)]_vars

\* ------------------------------------------------------------------------
\* C28 to C30: the commands of write_tag_epc
\* ------------------------------------------------------------------------

\* how the commands of write_tag_epc(tid, new_epc, start) begin, in the order
\* of the claim: with a tid the mask query and the TID mask, then the PC
\* read, the EPC write and the PC write, with a tid the mask restore or clear
EpcCommandOrder(o) ==
    (IF o.tid # <<>>
     THEN <<AT.MSK_q \o s_CR,
            AT.MSK \o <<"=">> \o s_TID \o <<",","0",",">> \o o.tid \o s_CR>>
     ELSE <<>>)
    \o <<AT.READ \o <<"=">> \o s_PC \o <<",","0",",","2">>,
         AT.WRT \o <<"=">> \o s_EPC \o <<",">> \o IntToStr(o.start) \o <<",">>
             \o o.new_epc,
         AT.WRT \o <<"=">> \o s_PC \o <<",","0",",">> >>
    \o (IF o.tid # <<>> THEN <<AT.MSK \o <<"=">> >> ELSE <<>>)

\* write_tag_epc has returned without an exception
EpcReturned == pc = "done" /\ op.name = "write_tag_epc" /\ outcome.kind = "return"

\* C28: the commands of write_tag_epc reach the transport in the order of
\* EpcCommandOrder, each only after every command before it ended in SUCCESS
\* (no write before the PC read succeeded, the PC write only after the EPC
\* write succeeded), and without a tid no mask command at all; a call returns
\* before the writes only when no tag answered the PC read, and a call that
\* returns after tags answered has written all the commands of the order
C28_CommandOrder ==
    (pc \in {"reading", "done"} /\ op.name = "write_tag_epc") =>
        /\ Len(written) <= Len(EpcCommandOrder(op))
        /\ \A i \in 1..Len(written) :
              /\ i <= Len(EpcCommandOrder(op))
                    => BeginsWith(written[i], EpcCommandOrder(op)[i])
              /\ (i > 1 /\ i - 1 <= Len(outcomes)) => outcomes[i - 1] = "SUCCESS"
              /\ op.tid = <<>> => ~BeginsWith(written[i], AT.MSK)
        /\ (EpcReturned /\ stage = "read_pc") =>
              read_tag_data(Split(response, "\r"), s_PC).value = <<>>
        /\ (EpcReturned /\ stage # "read_pc") =>
              /\ Len(written) = Len(EpcCommandOrder(op))
              /\ \A i \in 1..Len(outcomes) : outcomes[i] = "SUCCESS"

\* write_tag_epc with a tid has returned after its six commands, the last of
\* them AT+MSK=OFF
C28_SixCommands ==
    /\ EpcReturned
    /\ op.tid # <<>>
    /\ Len(written) = 6
    /\ written[3] = AT.READ \o <<"=">> \o s_PC \o <<",","0",",","2",",">> \o s_CR
    /\ written[6] = AT.MSK \o <<"=">> \o s_OFF \o s_CR

\* the PC word has been computed and its write command written
PcWordWritten == pc = "done" /\ op.name = "write_pc_word"

\* the data field of the written command AT+WRT=PC,0,<data>,
PcWordText ==
    IF Len(Split(send_command, ",")) >= 3 THEN Split(send_command, ",")[3]
    ELSE <<>>

\* C29, as claimed: the PC word written back is the PC base read from the
\* tags, of which the lower 11 bits are kept, with the length bits of the new
\* EPC (its number of words, from bit 11 up) in place of the old ones; it
\* is written as exactly 4 hex digits at offset 0 of the PC bank
C29_PcWordOfFourDigits ==
    PcWordWritten =>
        /\ BeginsWith(send_command,
                      AT.WRT \o <<"=">> \o s_PC \o <<",","0",",">>)
        /\ Len(PcWordText) = 4
        /\ \A i \in 1..Len(PcWordText) : DigitVal(PcWordText[i], 16) >= 0
        /\ DigitsValue(PcWordText, 16) % 2048 = DigitsValue(op.data, 16) % 2048
        /\ DigitsValue(PcWordText, 16) \div 2048 = Len(op.new_epc) \div 4

\* write_tag_epc with a tid has ended after its TID mask was set and tags
\* answered the PC read
EpcEndedUnderTidMask ==
    /\ pc = "done"
    /\ op.name = "write_tag_epc"
    /\ op.tid # <<>>
    /\ Len(outcomes) >= 3
    /\ outcomes[2] = "SUCCESS"
    /\ outcomes[3] = "SUCCESS"
    /\ stage = "read_pc" =>
          /\ read_tag_data(Split(response, "\r"), s_PC).kind = "return"
          /\ read_tag_data(Split(response, "\r"), s_PC).value # <<>>

\* C30, as claimed: whenever write_tag_epc has set its TID mask and a tag
\* answered the PC read, a command that restores or clears the mask is
\* written before the call ends, also when the call ends by raising
C30_MaskRestoredOnEveryPath ==
    EpcEndedUnderTidMask =>
        /\ Len(written) = Len(EpcCommandOrder(op))
        /\ BeginsWith(LastOf(written), AT.MSK \o <<"=">>)
        /\ ~BeginsWith(LastOf(written), AT.MSK \o <<"=">> \o s_TID)

\* ------------------------------------------------------------------------
\* C31, C32: write_tag_epc without tags, and with tags that fall silent
\* ------------------------------------------------------------------------

\* the body of the answer being collected holds event lines of AT+READ only
\* ('+READ: <NO TAGS FOUND>'): no tag answered
NoTagInAnswer ==
    /\ response # <<>>
    /\ \A i \in 1..Len(Split(response, "\r")) :
          /\ BeginsWith(Split(response, "\r")[i], Prefix.READ \o <<"<">>)
          /\ Len(Split(response, "\r")[i]) > Len(Prefix.READ) + 1

\* C31: when the PC read of write_tag_epc succeeds with an answer in which no
\* tag answered, the call returns the empty list at that step: nothing more
\* is written, so no EPC write, no PC write and, with a tid, no command that
\* restores or clears the mask after the TID mask
C31_NoTagsReturnsAtOnce ==
    [][(/\ CommandEndsIn("SUCCESS")
        /\ op.name = "write_tag_epc"
        /\ stage = "read_pc"
        /\ NoTagInAnswer) =>
           /\ pc' = "done"
           /\ outcome' = Ret(<<>>)
           /\ written' = written
           /\ Len(written) = (IF op.tid # <<>> THEN 3 ELSE 1)
           /\ \A i \in 1..Len(written) : ~BeginsWith(written[i], AT.WRT)
           /\ BeginsWith(LastOf(written), AT.READ)]_vars

\* write_tag_epc with a tid has returned the empty list after the no-tags
\* event, its last command the PC read, the TID mask still set
C31_NoTagsUnderTidMask ==
    /\ EpcReturned
    /\ op.tid # <<>>
    /\ stage = "read_pc"
    /\ outcome = Ret(<<>>)
    /\ response = Prefix.READ \o Event.NO_TAGS
    /\ Len(written) = 3
    /\ BeginsWith(written[2], AT.MSK \o <<"=">> \o s_TID)

\* C32, as claimed: a record of the result of write_tag_epc has no error only
\* if the EPC write and the PC write both reported OK for its tag; a tag
\* that answered the EPC write with OK and is absent from the answer of the
\* PC write is not returned without error
C32_ErrorFreeOnlyIfBothOk ==
    EpcResult =>
        \A e \in {EpcA, EpcB} :
            \A i \in RecordsOf(e) :
                ~has_error(outcome.value[i]) =>
                    (EpcWriteOk(e) /\ PcOks(e) # {})

\* ------------------------------------------------------------------------
\* C33: blank and stray lines in the inventory decoder
\* ------------------------------------------------------------------------

\* the inventory decoder has run on lines as the collector returns them
LinesDecoded == pc = "done" /\ op.name = "_parse_inventory_lines"

\* the decoded lines without those that do not start with '+'
LinesWithPlus ==
    SelectSeq(op.responses, LAMBDA line : line # <<>> /\ Head(line) = "+")

\* what the decoder gives for the lines that start with '+' alone
DecodedWithPlus ==
    parse_inventory(LinesWithPlus, op.split_index, op.ignore_error, FALSE,
        set_inventory_settings(FALSE, FALSE, FALSE, <<>>))

\* C33, as claimed: the inventory decoder ignores every line that does not
\* start with '+', the empty line included: what it gives for lines with blank
\* or stray lines among them is what it gives with those lines removed, and
\* it raises nothing for them
C33_StrayLinesIgnored ==
    LinesDecoded =>
        outcome = [kind |-> DecodedWithPlus.kind, value |-> DecodedWithPlus.value]

\* ------------------------------------------------------------------------
\* C34: error events of an inventory
\* ------------------------------------------------------------------------

\* the tag lines of the decoded answer have the layout of the settings
TagLinesFit ==
    \A i \in 1..Len(DecodedTagLines) :
        \/ DecodedTagLines[i] = InventoryLine(DecodedPrefix, EpcA, op.with_tid,
                                              op.with_rssi, op.is_report)
        \/ /\ DecodedTagLines[i] = DecodedPrefix \o EpcB \o <<",","-","5","7">>
           /\ op.with_rssi /\ ~op.with_tid /\ ~op.is_report

\* the decoded answer has the error event '<Antenna Error>'
HasErrorEvent ==
    \E i \in 1..Len(op.responses) :
        op.responses[i] = DecodedPrefix \o Event.ANTENNA_ERROR

\* the decoded answer has the event '<ROUND FINISHED, ANT=2>'
HasRoundFinished ==
    \E i \in 1..Len(op.responses) :
        op.responses[i] = DecodedPrefix \o Event.ROUND_FINISHED

\* 'Antenna Error', the text of the error event
AntennaErrorText == <<"A","n","t","e","n","n","a"," ","E","r","r","o","r">>

\* C34: an error event decoded without the ignore flag makes the decoder
\* raise a protocol error, so no tags are returned: the message is
\* 'Antenna Error - Antenna 2' when a round-finished event of antenna 2 is in
\* the same answer, before or after the error line, and the error text alone
\* otherwise, and the configuration mirror records the text under 'Antenna 2'
\* or under the generic key 'message'; with the flag set the error events
\* raise nothing, leave the mirror without an error entry and the tags of the
\* tag lines are returned
C34_ErrorEventRaises ==
    (Decoded /\ TagLinesFit) =>
        /\ (HasErrorEvent /\ ~op.ignore_error /\ HasRoundFinished) =>
              /\ outcome = RfidReaderException(
                     AntennaErrorText \o <<" ","-"," ","A","n","t","e","n","n","a"," ","2">>)
              /\ "error" \in DOMAIN config
              /\ DOMAIN config["error"] = {<<"A","n","t","e","n","n","a"," ","2">>}
              /\ config["error"][<<"A","n","t","e","n","n","a"," ","2">>] = AntennaErrorText
        /\ (HasErrorEvent /\ ~op.ignore_error /\ ~HasRoundFinished) =>
              /\ outcome = RfidReaderException(AntennaErrorText)
              /\ "error" \in DOMAIN config
              /\ DOMAIN config["error"] = {<<"m","e","s","s","a","g","e">>}
              /\ config["error"][<<"m","e","s","s","a","g","e">>] = AntennaErrorText
        /\ op.ignore_error =>
              /\ outcome.kind = "return"
              /\ "error" \notin DOMAIN config
              /\ Len(outcome.value) = Len(DecodedTagLines)
              /\ \A j \in 1..Len(DecodedTagLines) :
                    RecordOfLine(outcome.value[j], DecodedTagLines[j])

\* the error event came before the round-finished event and the protocol
\* error names antenna 2
C34_ErrorBeforeRoundFinished ==
    /\ Decoded /\ ~op.ignore_error
    /\ op.responses = <<DecodedPrefix \o Event.ANTENNA_ERROR,
                        DecodedPrefix \o Event.ROUND_FINISHED>>
    /\ outcome.kind = "RfidReaderException"
    /\ "error" \in DOMAIN config

\* ------------------------------------------------------------------------
\* C35: the antenna of the tags of an inventory
\* ------------------------------------------------------------------------

\* the places of the round-finished events among the decoded lines
RoundFinishedAt ==
    {i \in 1..Len(op.responses) :
        op.responses[i] \in {Prefix.INV \o Event.ROUND_FINISHED,
                             Prefix.INV \o Event.ROUND_FINISHED_1}}

\* the antenna number of the last round-finished event of the decoded lines
LastRoundAntenna ==
    LET last == CHOOSE i \in RoundFinishedAt : \A j \in RoundFinishedAt : j <= i
    IN  IF op.responses[last] = Prefix.INV \o Event.ROUND_FINISHED THEN 2 ELSE 1

\* no error is pending at the end of the decoded lines
NoErrorPending ==
    \/ op.ignore_error
    \/ \A i \in 1..Len(op.responses) :
          op.responses[i] # Prefix.INV \o Event.ANTENNA_ERROR

\* C35: when the decoded lines, none of them blank, have a round-finished
\* event and no error is pending, the decoder returns and every record, those
\* of lines before the event included, has the antenna number of the last
\* round-finished event; without a round-finished event no record has an
\* antenna
C35_AntennaOfLastRound ==
    (/\ LinesDecoded /\ NoErrorPending
     /\ \A i \in 1..Len(op.responses) : op.responses[i] # <<>>) =>
        /\ outcome.kind = "return"
        /\ Len(outcome.value) = Len(SelectSeq(op.responses,
                                    LAMBDA line : line \in {Prefix.INV \o EpcA,
                                                            Prefix.INV \o EpcB}))
        /\ \A j \in 1..Len(outcome.value) :
              IF RoundFinishedAt # {}
              THEN /\ "antenna" \in DOMAIN outcome.value[j]
                   /\ outcome.value[j]["antenna"] = LastRoundAntenna
              ELSE "antenna" \notin DOMAIN outcome.value[j]

\* a tag line before the round-finished events of antenna 2 and then of
\* antenna 1 was decoded to a record of antenna 1
C35_TagBeforeTwoRounds ==
    /\ LinesDecoded
    /\ op.responses = <<Prefix.INV \o EpcA, Prefix.INV \o Event.ROUND_FINISHED,
                        Prefix.INV \o Event.ROUND_FINISHED_1>>
    /\ outcome.kind = "return"
    /\ Len(outcome.value) = 1
    /\ outcome.value[1]["antenna"] = 1

\* ------------------------------------------------------------------------
\* C36: the commands of the constructor
\* ------------------------------------------------------------------------

\* what the constructor writes, in its order
ConstructorCommands ==
    <<AT.E1 \o s_CR, AT.BINV \o s_CR, AT.BINVR \o s_CR,
      <<"A","T","+","I","N","V","S","=","0",",","1",",","1">> \o s_CR>>

\* this step ends a command of the constructor with FAILURE or TIMEOUT
ConstructorCommandFails ==
    /\ op.name = "construct"
    /\ CommandEndsIn("FAILURE") \/ CommandEndsIn("TIMEOUT")

\* C36: the constructor writes ATE1, AT+BINV, AT+BINVR and AT+INVS=0,1,1 in
\* this order, ATE1 alone being collected without waiting for its echo; a
\* FAILURE or TIMEOUT of AT+BINV or AT+BINVR is swallowed and the next command
\* is written; a FAILURE or TIMEOUT of ATE1 or AT+INVS ends the constructor
\* with a protocol error, nothing more is written and no reader exists; the
\* reader exists only once all four commands were written and AT+INVS
\* succeeded
C36_ConstructorCommands ==
    [][/\ (pc' = "reading" /\ written' # written /\ op'.name = "construct") =>
              /\ Len(written') <= 4
              /\ written' = SubSeq(ConstructorCommands, 1, Len(written'))
              /\ response_started' = (Len(written') = 1)
       /\ (ConstructorCommandFails /\ Len(written) \in {2, 3}) =>
              /\ pc' = "reading"
              /\ Len(written') = Len(written) + 1
       /\ (ConstructorCommandFails /\ Len(written) \in {1, 4}) =>
              /\ pc' = "done"
              /\ outcome'.kind = "RfidReaderException"
              /\ written' = written
              /\ ~constructed'
       /\ (pc = "done" /\ op.name = "construct" /\ outcome.kind # "return"
           /\ pc' = "idle") => ~constructed'
       /\ (constructed' /\ ~constructed) =>
              /\ op.name = "construct"
              /\ written = ConstructorCommands
              /\ CommandEndsIn("SUCCESS")
              /\ outcome' = Ret(<<>>)]_vars

\* the reader was constructed although AT+BINV timed out and AT+BINVR failed
C36_ConstructedAfterSwallowedErrors ==
    /\ pc = "done" /\ op.name = "construct" /\ constructed
    /\ outcomes = <<"SUCCESS", "TIMEOUT", "FAILURE", "SUCCESS">>
    /\ written = ConstructorCommands

\* the constructor raised at AT+INVS after AT+BINV and AT+BINVR succeeded
C36_SettingsCommandFailed ==
    /\ pc = "done" /\ op.name = "construct" /\ ~constructed
    /\ outcomes = <<"SUCCESS", "SUCCESS", "SUCCESS", "FAILURE">>
    /\ outcome.kind = "RfidReaderException"

\* ------------------------------------------------------------------------
\* C37: the records of read_tag_data
\* ------------------------------------------------------------------------

\* read_tag_data has decoded the lines of its answer and returned
DataRead ==
    pc = "done" /\ op.name = "read_tag_data" /\ outcome.kind = "return"

\* the lines of the read answer that are not status events, in their order
ReadTagLines ==
    SelectSeq(op.responses, LAMBDA line : line[Len(Prefix.READ) + 1] # "<")

\* the fields of a line of the read answer: EPC, status, payload
ReadFields(line) ==
    Split(SubSeq(line, Len(Prefix.READ) + 1, Len(line)), ",")

\* the field of a record named after the memory bank read
BankField ==
    CASE op.memory = s_PC -> "pc" [] op.memory = s_USR -> "usr"
      [] op.memory = s_TID -> "tid" [] op.memory = s_EPC -> "epc"

\* C37, as claimed: for every memory bank, read_tag_data returns one record
\* per tag line and each record has as its epc the EPC field of its line: with
\* the status OK the payload is the record's data (and, for the banks PC, USR
\* and TID, the value of the bank's own field), with another status the
\* status is the error message; the epc is never replaced by the payload
C37_EpcKeptForEveryBank ==
    DataRead =>
        /\ Len(outcome.value) = Len(ReadTagLines)
        /\ \A j \in 1..Len(ReadTagLines) :
              /\ get_epc(outcome.value[j]) = ReadFields(ReadTagLines[j])[1]
              /\ (/\ Len(ReadFields(ReadTagLines[j])) >= 3
                  /\ ReadFields(ReadTagLines[j])[2] = s_OK) =>
                    /\ get_data(outcome.value[j]) = ReadFields(ReadTagLines[j])[3]
                    /\ ~has_error(outcome.value[j])
                    /\ op.memory # s_EPC =>
                          get(outcome.value[j], BankField, <<>>)
                              = ReadFields(ReadTagLines[j])[3]
              /\ (/\ Len(ReadFields(ReadTagLines[j])) >= 2
                  /\ ReadFields(ReadTagLines[j])[2] # s_OK) =>
                    /\ has_error(outcome.value[j])
                    /\ get_error_message(outcome.value[j])
                           = ReadFields(ReadTagLines[j])[2]

====
